---------------------------- MODULE Spec2Model ----------------------------
(***************************************************************************)
(* lodis: a Redis-like server that projects lists, maps and array-maps     *)
(* onto one flat, ordered, byte-keyed store (RocksDB).                     *)
(*                                                                         *)
(* Representation.                                                         *)
(*   - a byte string (store key, store value, user key, user value) is a   *)
(*     sequence of numbers 0..255; store keys are compared bytewise, as    *)
(*     RocksDB's default comparator does;                                  *)
(*   - a u32 is the pair <<hi, lo>> of its 16-bit halves and a u64 the     *)
(*     4-tuple of its 16-bit limbs, most significant first, so that the    *)
(*     full 32- and 64-bit ranges (and their wrap-around) are exact;       *)
(*   - an Option is a sequence of length 0 (None) or 1 (Some);             *)
(*   - a Result is a record [ok, val, err];                                *)
(*   - the store is a function from the keys present to their values.      *)
(***************************************************************************)
EXTENDS Integers, Sequences, FiniteSets, TLC

VARIABLES
    db,      \* the RocksDB store: present key -> value
    cname,   \* the name of the collection the requests address
    last,    \* the recorded request: its name, arguments, result and the store before it
    threads, \* per server thread: where it is in the handler, and what it has done
    locks    \* GlobalState.locks: per mutex in use, the thread holding it (0: free)

vars == <<db, cname, last, threads, locks>>

(***************************************************************************)
(* Bounds of the model.                                                    *)
(***************************************************************************)
\* a push is taken only while the list holds fewer than MaxLen elements
MaxLen == 4
\* the cursors stay within MaxDrift slots of slot 0 (on either side of the ring)
MaxDrift == 3

(***************************************************************************)
(* Byte codec (lodisdb/src/utils.rs) and integer helpers.                  *)
(***************************************************************************)
U16 == 256 * 256

MAX_U32 == <<65535, 65535>>
ZERO_U32 == <<0, 0>>
MAX_U64 == <<65535, 65535, 65535, 65535>>

\* a small natural as a u32, and a u32 below 2^31 as a number
IntToU32(n) == <<n \div U16, n % U16>>
U32ToInt(x) == x[1] * U16 + x[2]

u32_to_u8x4(u) == <<u[1] \div 256, u[1] % 256, u[2] \div 256, u[2] % 256>>
u8x4_to_u32(b) == <<b[1] * 256 + b[2], b[3] * 256 + b[4]>>
u64_to_u8x8(u) ==
    <<u[1] \div 256, u[1] % 256, u[2] \div 256, u[2] % 256,
      u[3] \div 256, u[3] % 256, u[4] \div 256, u[4] % 256>>

\* (x + d) mod 2^32 for a u32 x and a number d with |d| < 2^16
WrapAdd32(x, d) ==
    LET lo == x[2] + d
        carry == IF lo >= U16 THEN 1 ELSE IF lo < 0 THEN -1 ELSE 0
    IN  <<(x[1] + carry + U16) % U16, (lo + U16) % U16>>

Lt32(a, b) == a[1] < b[1] \/ (a[1] = b[1] /\ a[2] < b[2])
Le32(a, b) == a = b \/ Lt32(a, b)

\* u64 + 1, wrapping at 2^64 (a release build; a debug build panics instead)
WrapInc64(u) ==
    IF u[4] < U16 - 1 THEN <<u[1], u[2], u[3], u[4] + 1>>
    ELSE IF u[3] < U16 - 1 THEN <<u[1], u[2], u[3] + 1, 0>>
    ELSE IF u[2] < U16 - 1 THEN <<u[1], u[2] + 1, 0, 0>>
    ELSE IF u[1] < U16 - 1 THEN <<u[1] + 1, 0, 0, 0>>
    ELSE <<0, 0, 0, 0>>

Some(v) == <<v>>
None == <<>>
Ok(v) == [ok |-> TRUE, val |-> v, err |-> ""]
Err(e) == [ok |-> FALSE, val |-> <<>>, err |-> e]

(***************************************************************************)
(* The store contract (RocksDB): point reads, atomic write batches.        *)
(***************************************************************************)
\* bytewise order of keys
KeyLt(a, b) ==
    \/ Len(a) < Len(b) /\ \A j \in 1..Len(a) : a[j] = b[j]
    \/ \E i \in 1..(IF Len(a) < Len(b) THEN Len(a) ELSE Len(b)) :
           /\ a[i] < b[i]
           /\ \A j \in 1..(i - 1) : a[j] = b[j]

Get(d, k) == IF k \in DOMAIN d THEN Some(d[k]) ELSE None

BPut(k, v) == [t |-> "put", k |-> k, v |-> v, hi |-> <<>>]
BDelete(k) == [t |-> "delete", k |-> k, v |-> <<>>, hi |-> <<>>]
BDeleteRange(lo, hi) == [t |-> "delete_range", k |-> lo, v |-> <<>>, hi |-> hi]

ApplyOp(d, o) ==
    CASE o.t = "put" ->
            [x \in DOMAIN d \cup {o.k} |-> IF x = o.k THEN o.v ELSE d[x]]
      [] o.t = "delete" ->
            [x \in DOMAIN d \ {o.k} |-> d[x]]
      [] o.t = "delete_range" ->
            [x \in {y \in DOMAIN d : KeyLt(y, o.k) \/ ~KeyLt(y, o.hi)} |-> d[x]]

\* db.write(batch): the operations of the batch, in order, as one atomic write
RECURSIVE Write(_, _)
Write(d, batch) ==
    IF batch = <<>> THEN d
    ELSE Write(ApplyOp(d, Head(batch)), Tail(batch))

\* a method's plan: the batch it commits and the value it returns, both
\* computed from the reads it makes of store d
Plan(batch, ret) == [batch |-> batch, ret |-> ret]
Exec(d, plan) == [db |-> Write(d, plan.batch), ret |-> plan.ret]

EmptyDB == [x \in {} |-> <<>>]

(***************************************************************************)
(* Digest (lodisdb/src/crypto.rs): std's DefaultHasher, SipHash-1-3 with   *)
(* zero keys. A name (str) is hashed as its bytes followed by 0xff.  The   *)
(* table holds the digests of the names the model uses; NameMaxHash stands *)
(* for a name whose digest is the largest u64.                             *)
(***************************************************************************)
\* No name with a given digest can be computed, so the names below are
\* hypothetical: each stands for whatever name has the digest that
\* HypotheticalDigest gives it, and the digest of the text it is written
\* with is of no account.
NameMaxHash == "<a name with digest 2^64-1>"
\* names whose digests are the digest of `name` plus one and minus one
\* (modulo 2^64)
NameAbove(name) == "<a name with the digest of " \o name \o " plus 1>"
NameBelow(name) == "<a name with the digest of " \o name \o " minus 1>"

\* the digests the hypothetical names stand for; the child List of the
\* ArrayMap named NameMaxHash has the largest digest too
HypotheticalDigest(name) ==
    CASE name = NameMaxHash -> MAX_U64
      [] name = NameMaxHash \o "@list" -> MAX_U64
      [] name = NameMaxHash \o "@map" -> <<20050, 34625, 16667, 19812>>
      [] name = NameAbove("abc") -> <<61193, 57588, 35162, 9502>>
      [] name = NameBelow("abc") -> <<61193, 57588, 35162, 9500>>
      [] name = NameAbove(NameMaxHash) -> <<0, 0, 0, 0>>
      [] name = NameBelow(NameMaxHash) -> <<65535, 65535, 65535, 65534>>

\* siphash of a name: the digests of the names the model uses
siphash_str(name) ==
    CASE name = "abc" -> <<61193, 57588, 35162, 9501>>
      [] name = "abc@list" -> <<46310, 11355, 30603, 27829>>
      [] name = "abc@map" -> <<13993, 12677, 4259, 6903>>
      [] name = "@@@LODIS_KEY_MAP@@@" -> <<50155, 17608, 6049, 40329>>
      [] name = "@@@LODIS_KEY_MAP@@@@list" -> <<26274, 40478, 32577, 46167>>
      [] name = "@@@LODIS_KEY_MAP@@@@map" -> <<1512, 45816, 43124, 51820>>
      [] OTHER -> HypotheticalDigest(name)

\* a byte string (&[u8], BytesMut) is hashed as its length (usize, little
\* endian) followed by its bytes: the user keys of the model
siphash_bytes(bytes) ==
    CASE bytes = <<97>> -> <<48825, 42683, 63003, 22708>>
      [] bytes = <<98>> -> <<3880, 55917, 16755, 58642>>
      [] bytes = <<99>> -> <<39164, 19625, 24404, 47414>>
      \* the prefixes of the List, the Map and the ArrayMap named "abc"
      [] bytes = <<1, 239, 9, 224, 244, 137, 90, 37, 29>>
            -> <<49088, 2782, 22479, 36438>>
      [] bytes = <<2, 239, 9, 224, 244, 137, 90, 37, 29>>
            -> <<27305, 40561, 46601, 55904>>
      [] bytes = <<3, 180, 230, 44, 91, 119, 139, 108, 181>>
            -> <<14099, 61524, 57889, 21382>>
      \* the prefixes of the List, the Map and the ArrayMap named
      \* "@@@LODIS_KEY_MAP@@@"
      [] bytes = <<1, 195, 235, 68, 200, 23, 161, 157, 137>>
            -> <<51008, 15393, 40536, 43702>>
      [] bytes = <<2, 195, 235, 68, 200, 23, 161, 157, 137>>
            -> <<16385, 17299, 49994, 23303>>
      [] bytes = <<3, 102, 162, 158, 30, 127, 65, 180, 87>>
            -> <<16721, 36061, 59364, 22363>>

(***************************************************************************)
(* List engine (lodisdb/src/list.rs).  p is the 9-byte prefix.             *)
(***************************************************************************)
FLAG_LIST == 1
FLAG_MAP == 2
FLAG_ARRAYMAP == 3

\* List::new: TYPE flag followed by the big-endian digest of the name
List_new(name) == <<FLAG_LIST>> \o u64_to_u8x8(siphash_str(name))

\* prefix ‖ "@L", "@H", "@T"
MetaKey(p, c) == p \o <<64, c>>
LengthKey(p) == MetaKey(p, 76)
HeadKey(p) == MetaKey(p, 72)
TailKey(p) == MetaKey(p, 84)
\* prefix ‖ "$" ‖ index
ElemKey(p, index) == p \o <<36>> \o u32_to_u8x4(index)

List_length(d, p) ==
    IF LengthKey(p) \in DOMAIN d THEN u8x4_to_u32(d[LengthKey(p)]) ELSE ZERO_U32
List_head(d, p) ==
    IF HeadKey(p) \in DOMAIN d THEN u8x4_to_u32(d[HeadKey(p)]) ELSE MAX_U32
List_tail(d, p) ==
    IF TailKey(p) \in DOMAIN d THEN u8x4_to_u32(d[TailKey(p)]) ELSE ZERO_U32

set_head(p, value) == <<BPut(HeadKey(p), u32_to_u8x4(value))>>
set_tail(p, value) == <<BPut(TailKey(p), u32_to_u8x4(value))>>

\* List::incr_length: the put it adds to the batch (none for a decrement at 0)
List_incr_length(d, p, incr) ==
    LET length == U32ToInt(List_length(d, p))
        sum == length + incr
        new == IF sum < 0 THEN 0 ELSE sum
    IN  IF length = 0 /\ incr < 0 THEN <<>>
        ELSE <<BPut(LengthKey(p), u32_to_u8x4(IntToU32(new)))>>

\* the slot after / before a slot on the ring
NextIndex(index) == IF index = MAX_U32 THEN ZERO_U32 ELSE WrapAdd32(index, 1)
PrevIndex(index) == IF index = ZERO_U32 THEN MAX_U32 ELSE WrapAdd32(index, -1)

\* List::abs_index: the absolute index of a relative one (|index| < 2^16 here)
List_abs_index(d, p, index) ==
    IF index >= 0
    THEN WrapAdd32(NextIndex(List_head(d, p)), index)
    ELSE WrapAdd32(PrevIndex(List_tail(d, p)), index + 1)

\* List::random_index: floor((length - 1) * y) for a uniform y in [0, 1)
\* (length 0 is not decremented): the set of the indices it can return
List_random_index(d, p) ==
    LET length == U32ToInt(List_length(d, p))
        scaled == IF length # 0 THEN length - 1 ELSE 0
    IN  IF scaled = 0 THEN {0} ELSE 0..(scaled - 1)

List_index_with_abs(d, p, abs_index) == Get(d, ElemKey(p, abs_index))
List_index(d, p, index) == Get(d, ElemKey(p, List_abs_index(d, p, index)))

\* the j-th index a push starting at `start` assigns (j = 1 is start itself)
RECURSIVE PushIndex(_, _)
PushIndex(start, j) == IF j = 1 THEN start ELSE NextIndex(PushIndex(start, j - 1))
RECURSIVE PushLeftIndex(_, _)
PushLeftIndex(start, j) ==
    IF j = 1 THEN start ELSE PrevIndex(PushLeftIndex(start, j - 1))

\* a push that leaves tail on the last index it assigned
List_push_tail_on_last(d, p, values) ==
    LET n == Len(values)
        tail == List_tail(d, p)
        indexes == [j \in 1..n |-> PushIndex(tail, j)]
        puts == [j \in 1..n |-> BPut(ElemKey(p, indexes[j]), values[j])]
    IN  Plan(puts \o set_tail(p, PushIndex(tail, IF n = 0 THEN 1 ELSE n))
                  \o List_incr_length(d, p, n),
             Ok(indexes))

List_push(d, p, values) ==
    LET n == Len(values)
        tail == List_tail(d, p)
        indexes == [j \in 1..n |-> PushIndex(tail, j)]
        puts == [j \in 1..n |-> BPut(ElemKey(p, indexes[j]), values[j])]
    IN  Plan(puts \o set_tail(p, PushIndex(tail, n + 1)) \o List_incr_length(d, p, n),
             Ok(indexes))

List_push_left(d, p, values) ==
    LET n == Len(values)
        head == List_head(d, p)
        indexes == [j \in 1..n |-> PushLeftIndex(head, j)]
        puts == [j \in 1..n |-> BPut(ElemKey(p, indexes[j]), values[j])]
    IN  Plan(puts \o set_head(p, PushLeftIndex(head, n + 1)) \o List_incr_length(d, p, n),
             Ok(indexes))

\* a boundary check that knows the shape head < tail only
List_set_by_absindex_one_shape(d, p, abs_index, value) ==
    IF Le32(abs_index, List_head(d, p)) \/ Le32(List_tail(d, p), abs_index)
    THEN Plan(<<>>, Err("OutOfRange"))
    ELSE Plan(<<BPut(ElemKey(p, abs_index), value)>>, Ok(<<>>))

List_set_by_absindex(d, p, abs_index, value) ==
    LET head == List_head(d, p)
        tail == List_tail(d, p)
        out == IF Lt32(head, tail)
               THEN Le32(abs_index, head) \/ Le32(tail, abs_index)
               ELSE Le32(abs_index, head) /\ Le32(tail, abs_index)
    IN  IF out THEN Plan(<<>>, Err("OutOfRange"))
        ELSE Plan(<<BPut(ElemKey(p, abs_index), value)>>, Ok(<<>>))

\* a pop that deletes the last element and leaves the tail cursor where it was
List_pop_keep_tail(d, p) ==
    LET index == PrevIndex(List_tail(d, p))
    IN  IF List_length(d, p) = ZERO_U32 THEN Plan(<<>>, Ok(None))
        ELSE Plan(<<BDelete(ElemKey(p, index))>> \o List_incr_length(d, p, -1),
                  Ok(Get(d, ElemKey(p, index))))

List_pop(d, p) ==
    LET index == PrevIndex(List_tail(d, p))
    IN  IF List_length(d, p) = ZERO_U32 THEN Plan(<<>>, Ok(None))
        ELSE Plan(<<BDelete(ElemKey(p, index))>> \o set_tail(p, index)
                      \o List_incr_length(d, p, -1),
                  Ok(Get(d, ElemKey(p, index))))

List_pop_left(d, p) ==
    LET index == NextIndex(List_head(d, p))
    IN  IF List_length(d, p) = ZERO_U32 THEN Plan(<<>>, Ok(None))
        ELSE Plan(<<BDelete(ElemKey(p, index))>> \o set_head(p, index)
                      \o List_incr_length(d, p, -1),
                  Ok(Get(d, ElemKey(p, index))))

\* a deletion that removes the victim slot only: the gap the swap avoids
List_delete_with_abs_index_gap(d, p, abs_index) ==
    IF Get(d, ElemKey(p, abs_index)) = None THEN Plan(<<>>, Ok(<<>>))
    ELSE Plan(<<BDelete(ElemKey(p, abs_index))>> \o List_incr_length(d, p, -1),
              Ok(<<>>))

\* a swap-delete that drops the first element without moving it into the
\* victim's slot
List_delete_with_abs_index_nomove(d, p, abs_index) ==
    LET first_index == NextIndex(List_head(d, p))
        last_index == PrevIndex(List_tail(d, p))
    IN  IF Get(d, ElemKey(p, abs_index)) = None THEN Plan(<<>>, Ok(<<>>))
        ELSE IF abs_index = last_index /\ abs_index # first_index
        THEN Plan(<<BDelete(ElemKey(p, abs_index))>> \o List_incr_length(d, p, -1)
                      \o set_tail(p, abs_index),
                  Ok(<<>>))
        ELSE Plan(<<BDelete(ElemKey(p, first_index))>> \o List_incr_length(d, p, -1)
                      \o set_head(p, first_index),
                  Ok(<<>>))

\* a swap-delete that fills the victim's slot with the last element instead
\* of the first
List_delete_with_abs_index_move_last(d, p, abs_index) ==
    LET first_index == NextIndex(List_head(d, p))
        last_index == PrevIndex(List_tail(d, p))
        last_value == Get(d, ElemKey(p, last_index))
    IN  IF Get(d, ElemKey(p, abs_index)) = None THEN Plan(<<>>, Ok(<<>>))
        ELSE IF abs_index = first_index
        THEN Plan(<<BDelete(ElemKey(p, abs_index))>> \o List_incr_length(d, p, -1)
                      \o set_head(p, abs_index),
                  Ok(<<>>))
        ELSE IF abs_index = last_index \/ last_value = None
        THEN Plan(<<BDelete(ElemKey(p, abs_index))>> \o List_incr_length(d, p, -1)
                      \o set_tail(p, abs_index),
                  Ok(<<>>))
        ELSE Plan(<<BDelete(ElemKey(p, last_index))>> \o List_incr_length(d, p, -1)
                      \o set_tail(p, last_index)
                      \o <<BPut(ElemKey(p, abs_index), last_value[1])>>,
                  Ok(<<>>))

List_delete_with_abs_index(d, p, abs_index) ==
    LET first_index == NextIndex(List_head(d, p))
        last_index == PrevIndex(List_tail(d, p))
        first_value == Get(d, ElemKey(p, first_index))
    IN  IF Get(d, ElemKey(p, abs_index)) = None THEN Plan(<<>>, Ok(<<>>))
        ELSE IF abs_index = first_index
        THEN Plan(<<BDelete(ElemKey(p, abs_index))>> \o List_incr_length(d, p, -1)
                      \o set_head(p, abs_index),
                  Ok(<<>>))
        ELSE IF abs_index = last_index
        THEN Plan(<<BDelete(ElemKey(p, abs_index))>> \o List_incr_length(d, p, -1)
                      \o set_tail(p, abs_index),
                  Ok(<<>>))
        ELSE IF first_value = None
        THEN Plan(<<>>, Err("panic: unwrap on None"))
        ELSE Plan(<<BDelete(ElemKey(p, first_index))>> \o List_incr_length(d, p, -1)
                      \o set_head(p, first_index)
                      \o <<BPut(ElemKey(p, abs_index), first_value[1])>>,
                  Ok(<<>>))

List_delete(d, p, index) ==
    List_delete_with_abs_index(d, p, List_abs_index(d, p, index))

\* List::pop_random with the random relative index r
List_pop_random(d, p, r) ==
    LET value == List_index(d, p, r)
        del == List_delete(d, p, r)
    IN  IF value = None THEN Plan(<<>>, Ok(None))
        ELSE Plan(del.batch, IF del.ret.ok THEN Ok(value) ELSE del.ret)

\* List::random with the random relative index r
List_random(d, p, r) == List_index(d, p, r)

\* an abs_index whose negative indexes count from the tail slot itself
List_abs_index_far_from_tail(d, p, q, r) ==
    IF q > 0 \/ (q = 0 /\ r >= 0)
    THEN WrapAdd32(NextIndex(List_head(d, p)), r)
    ELSE WrapAdd32(List_tail(d, p), r + 1)

\* List::abs_index for an i64 index far from 0: index = q * 2^32 + r with
\* |r| < 2^16.  `% 2^32` followed by `as u32` drops the multiple of 2^32.
List_abs_index_far(d, p, q, r) ==
    IF q > 0 \/ (q = 0 /\ r >= 0)
    THEN WrapAdd32(NextIndex(List_head(d, p)), r)
    ELSE WrapAdd32(PrevIndex(List_tail(d, p)), r + 1)

\* List::index for the index q * 2^32 + r
List_index_far(d, p, q, r) == Get(d, ElemKey(p, List_abs_index_far(d, p, q, r)))

\* List::range: the slots of the positions i in start..end-1, counted from
\* head + 1 (Forward) or from tail - 1 downwards (Reverse); an empty slot
\* adds nothing
RECURSIVE RangeFrom(_, _, _, _, _)
RangeFrom(d, p, i, end, direction) ==
    IF i >= end THEN <<>>
    ELSE LET index == IF direction = "Forward"
                      THEN WrapAdd32(List_head(d, p), 1 + i)
                      ELSE WrapAdd32(List_tail(d, p), 0 - i - 1)
             value == Get(d, ElemKey(p, index))
         IN  value \o RangeFrom(d, p, i + 1, end, direction)

\* a range that reads head + 1 onwards whatever the direction
List_range_forward_only(d, p, start, end, direction) ==
    RangeFrom(d, p, start, end, "Forward")

List_range(d, p, start, end, direction) == RangeFrom(d, p, start, end, direction)

\* List::all: the slots head + 1 + i for i in 0..length-1
RECURSIVE AllFrom(_, _, _)
AllFrom(d, p, i) ==
    IF i >= U32ToInt(List_length(d, p)) THEN <<>>
    ELSE Get(d, ElemKey(p, WrapAdd32(List_head(d, p), i + 1))) \o AllFrom(d, p, i + 1)

List_all(d, p) == AllFrom(d, p, 0)

(***************************************************************************)
(* ASCII decimal numbers: str::parse::<i64>, i64 addition and              *)
(* i64::to_string.  An i64 is the pair <<a, r>>: the number r (a = 0),     *)
(* i64::MAX + r (a = 1, -5807 <= r <= 0) or i64::MIN + r (a = -1,          *)
(* 0 <= r <= 5808), so that both ends of the i64 range are exact.          *)
(***************************************************************************)
\* i64::MAX = 9223372036854775807 and i64::MIN = -9223372036854775808: the
\* first 15 digits, and the number made of the last 4
I64_HEAD == <<57, 50, 50, 51, 51, 55, 50, 48, 51, 54, 56, 53, 52, 55, 55>>
I64_MAX_LOW == 5807
I64_MIN_LOW == 5808

\* x + y in i64.  overflow_checks: the build traps an overflow (a debug
\* build panics: None); otherwise the sum wraps modulo 2^64 (a release build)
i64_add(x, y, overflow_checks) ==
    LET a == x[1] + y[1]
        r == x[2] + y[2]
        overflow == \/ a = 2
                    \/ a = -2
                    \/ x[1] # y[1] /\ a = 1 /\ r > 0
                    \/ x[1] # y[1] /\ a = -1 /\ r < 0
    IN  IF overflow /\ overflow_checks THEN None
        ELSE IF a = 2 THEN Some(<<0, r - 2>>)
        ELSE IF a = -2 THEN Some(<<0, r>>)
        ELSE IF x[1] = y[1] THEN Some(<<0, r>>)
        ELSE IF a = 0 THEN Some(<<0, r - 1>>)
        ELSE IF a = 1 THEN (IF r > 0 THEN Some(<<-1, r - 1>>) ELSE Some(<<1, r>>))
        ELSE (IF r < 0 THEN Some(<<1, r + 1>>) ELSE Some(<<-1, r>>))

IsDigit(b) == b >= 48 /\ b <= 57

RECURSIVE DigitsValue(_)
DigitsValue(ds) ==
    IF ds = <<>> THEN 0
    ELSE DigitsValue(SubSeq(ds, 1, Len(ds) - 1)) * 10 + (ds[Len(ds)] - 48)

RECURSIVE StripZeros(_)
StripZeros(ds) == IF ds # <<>> /\ ds[1] = 48 THEN StripZeros(Tail(ds)) ELSE ds

\* Some(n) for an optional sign followed by one or more digits that make a
\* number of the i64 range, else None.  (Numbers of 10 to 19 digits other
\* than those within 5808 of an end of the range are not represented.)
parse_i64(bytes) ==
    LET signed == bytes # <<>> /\ bytes[1] \in {43, 45}
        neg == signed /\ bytes[1] = 45
        ds == IF signed THEN Tail(bytes) ELSE bytes
        z == StripZeros(ds)
        low == DigitsValue(SubSeq(z, 16, 19))
    IN  IF ds = <<>> \/ \E j \in 1..Len(ds) : ~IsDigit(ds[j]) THEN None
        ELSE IF Len(z) > 19 THEN None
        ELSE IF Len(z) <= 9
        THEN Some(<<0, IF neg THEN 0 - DigitsValue(z) ELSE DigitsValue(z)>>)
        ELSE CASE Len(z) = 19 /\ SubSeq(z, 1, 15) = I64_HEAD ->
                  IF neg THEN (IF low <= I64_MIN_LOW THEN Some(<<-1, I64_MIN_LOW - low>>)
                               ELSE None)
                  ELSE (IF low <= I64_MAX_LOW THEN Some(<<1, low - I64_MAX_LOW>>)
                        ELSE None)

RECURSIVE NatToBytes(_)
NatToBytes(n) ==
    IF n < 10 THEN <<48 + n>> ELSE NatToBytes(n \div 10) \o <<48 + (n % 10)>>
\* the four decimal digits of a number below 10000
Pad4(n) ==
    <<48 + (n \div 1000), 48 + ((n \div 100) % 10), 48 + ((n \div 10) % 10), 48 + (n % 10)>>
to_string(x) ==
    CASE x[1] = 0 -> IF x[2] < 0 THEN <<45>> \o NatToBytes(0 - x[2]) ELSE NatToBytes(x[2])
      [] x[1] = 1 -> I64_HEAD \o Pad4(I64_MAX_LOW + x[2])
      [] x[1] = -1 -> <<45>> \o I64_HEAD \o Pad4(I64_MIN_LOW - x[2])

(***************************************************************************)
(* Map engine (lodisdb/src/map.rs).  p is the 9-byte prefix.               *)
(***************************************************************************)
Map_new(name) == <<FLAG_MAP>> \o u64_to_u8x8(siphash_str(name))

\* prefix ‖ ":" ‖ key
EntryKey(p, key) == p \o <<58>> \o key

Map_length(d, p) ==
    IF LengthKey(p) \in DOMAIN d THEN u8x4_to_u32(d[LengthKey(p)]) ELSE ZERO_U32

Map_incr_length(d, p, incr) ==
    LET length == U32ToInt(Map_length(d, p))
    IN  IF length = 0 /\ incr < 0 THEN <<>>
        ELSE <<BPut(LengthKey(p), u32_to_u8x4(IntToU32(length + incr)))>>

Map_exists(d, p, key) == EntryKey(p, key) \in DOMAIN d
Map_get(d, p, key) == Get(d, EntryKey(p, key))

Map_set(d, p, key, value) ==
    Plan(<<BPut(EntryKey(p, key), value)>>
             \o (IF Map_get(d, p, key) = None THEN Map_incr_length(d, p, 1) ELSE <<>>),
         Ok(<<>>))

\* a setnx that writes whether or not the key is present
Map_setnx_overwrite(d, p, key, value) == Map_set(d, p, key, value)

Map_setnx(d, p, key, value) ==
    IF Map_get(d, p, key) # None THEN Plan(<<>>, Ok(<<>>))
    ELSE Plan(<<BPut(EntryKey(p, key), value)>> \o Map_incr_length(d, p, 1), Ok(<<>>))

Map_increase(d, p, key, incr, overflow_checks) ==
    LET value == Map_get(d, p, key)
        val_int == parse_i64(value[1])
        new_val == i64_add(val_int[1], incr, overflow_checks)
    IN  IF value = None
        THEN Plan(<<BPut(EntryKey(p, key), to_string(incr))>> \o Map_incr_length(d, p, 1),
                  Ok(<<>>))
        ELSE IF val_int = None THEN Plan(<<>>, Err("IsNotNumeric"))
        ELSE IF new_val = None THEN Plan(<<>>, Err("panic"))
        ELSE Plan(<<BPut(EntryKey(p, key), to_string(new_val[1]))>>, Ok(<<>>))

Map_delete(d, p, key) ==
    IF Map_get(d, p, key) = None THEN Plan(<<>>, Ok(<<>>))
    ELSE Plan(<<BDelete(EntryKey(p, key))>> \o Map_incr_length(d, p, -1), Ok(<<>>))

\* Map::mset: every key is probed in the store as it was before the call
Map_mset(d, p, kvs) ==
    LET n == Len(kvs)
        puts == [j \in 1..n |-> BPut(EntryKey(p, kvs[j][1]), kvs[j][2])]
        incr == Cardinality({j \in 1..n : Map_get(d, p, kvs[j][1]) = None})
    IN  Plan(puts \o Map_incr_length(d, p, incr), Ok(<<>>))


(***************************************************************************)
(* DBValue (lodisdb/src/common.rs): the views of a stored value.           *)
(***************************************************************************)
\* KeyhashValue: key digest (8 bytes) ‖ value
keyhash(v) == SubSeq(v, 1, 8)
value_of(v) == SubSeq(v, 9, Len(v))
\* IndexKey: index (u32, 4 bytes) ‖ user key
index_of(v) == u8x4_to_u32(SubSeq(v, 1, 4))
key_of(v) == SubSeq(v, 5, Len(v))

(***************************************************************************)
(* ArrayMap engine (lodisdb/src/arraymap.rs).  An operation is a sequence  *)
(* of List and Map method calls, each committing its own batch; it yields  *)
(* [db, ret]: the store it leaves and the value it returns.  am is the     *)
(* handle: the prefixes of the child List and Map.                         *)
(***************************************************************************)
ArrayMap_new(name) ==
    [list |-> <<FLAG_ARRAYMAP>> \o Tail(List_new(name \o "@list")),
     map |-> <<FLAG_ARRAYMAP>> \o Tail(Map_new(name \o "@map"))]

key_hash(key) == u64_to_u8x8(siphash_bytes(key))

Result(d, ret) == [db |-> d, ret |-> ret]
NotMatch == Err("DBValueNotMatch")

ArrayMap_length(d, am) == List_length(d, am.list)
ArrayMap_exists(d, am, key) == Map_exists(d, am.map, key_hash(key))

ArrayMap_get(d, am, key) ==
    LET m == Map_get(d, am.map, key_hash(key))
        v == List_index_with_abs(d, am.list, index_of(m[1]))
    IN  IF m = None THEN Ok(None)
        ELSE IF v = None THEN NotMatch
        ELSE Ok(v)

\* direction: TRUE = Forward (push), FALSE = Reverse (push_left)
set_new_pair(d, am, kh, key, value, forward) ==
    LET pushed == Exec(d, IF forward THEN List_push(d, am.list, <<kh \o value>>)
                          ELSE List_push_left(d, am.list, <<kh \o value>>))
    IN  Exec(pushed.db,
             Map_set(pushed.db, am.map, kh, u32_to_u8x4(pushed.ret.val[1]) \o key))

set_list_item(d, am, index, kh, value) ==
    Exec(d, List_set_by_absindex(d, am.list, index, kh \o value))

\* one turn of the loop of push / push_left (nx = FALSE) and of pushnx /
\* pushnx_left (nx = TRUE)
PushPair(d, am, pair, forward, nx) ==
    LET kh == key_hash(pair[1])
        m == Map_get(d, am.map, kh)
    IN  IF m # None
        THEN IF nx THEN Result(d, Ok(<<>>))
             ELSE set_list_item(d, am, index_of(m[1]), kh, pair[2])
        ELSE set_new_pair(d, am, kh, pair[1], pair[2], forward)

\* the loop over the pairs: the first error ends the call
RECURSIVE PushPairs(_, _, _, _, _)
PushPairs(d, am, pairs, forward, nx) ==
    IF pairs = <<>> THEN Result(d, Ok(<<>>))
    ELSE LET r == PushPair(d, am, Head(pairs), forward, nx)
         IN  IF r.ret.ok THEN PushPairs(r.db, am, Tail(pairs), forward, nx) ELSE r

ArrayMap_push(d, am, pairs) == PushPairs(d, am, pairs, TRUE, FALSE)
ArrayMap_pushnx(d, am, pairs) == PushPairs(d, am, pairs, TRUE, TRUE)
ArrayMap_push_left(d, am, pairs) == PushPairs(d, am, pairs, FALSE, FALSE)
ArrayMap_pushnx_left(d, am, pairs) == PushPairs(d, am, pairs, FALSE, TRUE)

ArrayMap_increase(d, am, key, incr, overflow_checks) ==
    LET kh == key_hash(key)
        m == Map_get(d, am.map, kh)
        index == index_of(m[1])
        v == List_index_with_abs(d, am.list, index)
        val_int == parse_i64(value_of(v[1]))
        new_val == i64_add(val_int[1], incr, overflow_checks)
    IN  IF m = None THEN set_new_pair(d, am, kh, key, to_string(incr), TRUE)
        ELSE IF v = None THEN Result(d, NotMatch)
        ELSE IF val_int = None THEN Result(d, Err("IsNotNumeric"))
        ELSE IF new_val = None THEN Result(d, Err("panic"))
        ELSE set_list_item(d, am, index, kh, to_string(new_val[1]))

\* the common tail of pop, pop_left and pop_random: the List has popped
\* `popped`; remove the Map entry of the popped value
AfterPop(popped, am) ==
    LET value == popped.ret.val
        kh == keyhash(value[1])
        index_key == Map_get(popped.db, am.map, kh)
    IN  IF ~popped.ret.ok THEN popped
        ELSE IF value = None THEN Result(popped.db, Ok(None))
        ELSE IF index_key = None THEN Result(popped.db, NotMatch)
        ELSE Result(Exec(popped.db, Map_delete(popped.db, am.map, kh)).db,
                    Ok(Some(<<index_key[1], value[1]>>)))

\* a pop that takes the element off the List and leaves its Map entry
ArrayMap_pop_keep_entry(d, am) ==
    LET popped == Exec(d, List_pop(d, am.list))
        value == popped.ret.val
        index_key == Map_get(popped.db, am.map, keyhash(value[1]))
    IN  IF value = None THEN Result(popped.db, Ok(None))
        ELSE IF index_key = None THEN Result(popped.db, NotMatch)
        ELSE Result(popped.db, Ok(Some(<<index_key[1], value[1]>>)))

ArrayMap_pop(d, am) == AfterPop(Exec(d, List_pop(d, am.list)), am)
ArrayMap_pop_left(d, am) == AfterPop(Exec(d, List_pop_left(d, am.list)), am)
\* r: the random relative index List::pop_random draws
ArrayMap_pop_random(d, am, r) == AfterPop(Exec(d, List_pop_random(d, am.list, r)), am)

\* delete without its third step: the Map entry of the element the List
\* moved is left as it was
ArrayMap_delete_norepair(d, am, key) ==
    LET kh == key_hash(key)
        m == Map_get(d, am.map, kh)
        d1 == Exec(d, Map_delete(d, am.map, kh)).db
    IN  IF m = None THEN Result(d, Ok(<<>>))
        ELSE Exec(d1, List_delete_with_abs_index(d1, am.list, index_of(m[1])))

ArrayMap_delete(d, am, key) ==
    LET kh == key_hash(key)
        m == Map_get(d, am.map, kh)
        index == index_of(m[1])
        d1 == Exec(d, Map_delete(d, am.map, kh)).db
        del == Exec(d1, List_delete_with_abs_index(d1, am.list, index))
        d2 == del.db
        \* the element the swap moved into the slot, if any
        moved == List_index_with_abs(d2, am.list, index)
        old_index_key == Map_get(d2, am.map, keyhash(moved[1]))
    IN  IF m = None THEN Result(d, Ok(<<>>))
        ELSE IF ~del.ret.ok THEN del
        ELSE IF moved = None THEN Result(d2, Ok(<<>>))
        ELSE IF old_index_key = None THEN Result(d2, NotMatch)
        ELSE Exec(d2, Map_set(d2, am.map, keyhash(moved[1]),
                              u32_to_u8x4(index) \o key_of(old_index_key[1])))

\* the first n keys of a set of keys, smallest first
RECURSIVE TakeFrom(_, _)
TakeFrom(keys, n) ==
    IF n = 0 \/ keys = {} THEN <<>>
    ELSE LET k == CHOOSE k \in keys : \A x \in keys : x = k \/ KeyLt(k, x)
         IN  <<k>> \o TakeFrom(keys \ {k}, n - 1)

\* Map::values: db.prefix_iterator(prefix ‖ ":").take(length), the values of
\* the first `length` stored keys from prefix ‖ ":" on, in key order
Map_values(d, p) ==
    LET from == {k \in DOMAIN d : ~KeyLt(k, p \o <<58>>)}
        ks == TakeFrom(from, U32ToInt(Map_length(d, p)))
    IN  [j \in 1..Len(ks) |-> d[ks[j]]]

\* Map::keys and Map::all: the same scan; a key is returned whole (its view
\* as a user key drops the first 10 bytes)
Map_keys(d, p) ==
    TakeFrom({k \in DOMAIN d : ~KeyLt(k, p \o <<58>>)}, U32ToInt(Map_length(d, p)))
Map_all(d, p) ==
    LET ks == Map_keys(d, p)
    IN  [j \in 1..Len(ks) |-> <<ks[j], d[ks[j]]>>]

\* ArrayMap::keys: the values of the Map, each an index ‖ key
ArrayMap_keys(d, am) == Ok(Map_values(d, am.map))

\* ArrayMap::values: the elements of the List, each a key hash ‖ value
ArrayMap_values(d, am) == Ok(List_all(d, am.list))

\* the loop of ArrayMap::range over the values List::range returned: each
\* is paired with the Map entry of the key hash it carries
RECURSIVE PairUp(_, _, _)
PairUp(d, am, values) ==
    IF values = <<>> THEN Ok(<<>>)
    ELSE LET index_key == Map_get(d, am.map, keyhash(Head(values)))
             rest == PairUp(d, am, Tail(values))
         IN  IF index_key = None THEN NotMatch
             ELSE IF ~rest.ok THEN rest
             ELSE Ok(<<(<<index_key[1], Head(values)>>)>> \o rest.val)

ArrayMap_range(d, am, start, end, direction) ==
    PairUp(d, am, List_range(d, am.list, start, end, direction))

\* the loop of ArrayMap::all over the values of the Map: each index ‖ key is
\* paired with the List slot of its index
RECURSIVE Deref(_, _, _)
Deref(d, am, keys) ==
    IF keys = <<>> THEN Ok(<<>>)
    ELSE LET v == List_index_with_abs(d, am.list, index_of(Head(keys)))
             rest == Deref(d, am, Tail(keys))
         IN  IF v = None THEN NotMatch
             ELSE IF ~rest.ok THEN rest
             ELSE Ok(<<(<<Head(keys), v[1]>>)>> \o rest.val)

ArrayMap_all(d, am) == Deref(d, am, Map_values(d, am.map))

(***************************************************************************)
(* LodisData::remove (lodisdb/src/data.rs).  The store is opened with      *)
(* open_default, which sets no prefix extractor, so both iterators run in  *)
(* total key order.                                                        *)
(***************************************************************************)
\* the first item of db.iterator(From(key, Forward)): the smallest stored
\* key >= key
IterForward(d, key) ==
    LET above == {k \in DOMAIN d : ~KeyLt(k, key)}
    IN  IF above = {} THEN None
        ELSE Some(CHOOSE k \in above : \A x \in above : x = k \/ KeyLt(k, x))

\* the first item of db.iterator(From(key, Reverse)): the largest stored
\* key <= key
IterReverse(d, key) ==
    LET below == {k \in DOMAIN d : k = key \/ KeyLt(k, key)}
    IN  IF below = {} THEN None
        ELSE Some(CHOOSE k \in below : \A x \in below : x = k \/ KeyLt(x, k))

\* a remove that does not check that the key the reverse scan found belongs
\* to the collection
LodisData_remove_any_end(d, prefix, name, overflow_checks) ==
    LET item == IterForward(d, prefix)
        start_key == item[1]
        hash == siphash_str(name)
        next_prefix == <<prefix[1]>> \o u64_to_u8x8(WrapInc64(hash))
        item2 == IterReverse(d, next_prefix)
        end_key == item2[1]
    IN  IF item = None THEN Plan(<<>>, Ok(<<>>))
        ELSE IF SubSeq(start_key, 1, 9) # prefix THEN Plan(<<>>, Ok(<<>>))
        ELSE IF hash = MAX_U64 /\ overflow_checks THEN Plan(<<>>, Err("panic"))
        ELSE IF item2 = None THEN Plan(<<BDelete(start_key)>>, Ok(<<>>))
        ELSE Plan((IF start_key # end_key THEN <<BDeleteRange(start_key, end_key)>>
                   ELSE <<>>) \o <<BDelete(end_key)>>,
                  Ok(<<>>))

\* overflow_checks: the build traps the overflow of siphash(name) + 1 (a
\* debug build panics); otherwise the sum wraps to 0 (a release build)
LodisData_remove(d, prefix, name, overflow_checks) ==
    LET item == IterForward(d, prefix)
        start_key == item[1]
        hash == siphash_str(name)
        next_prefix == <<prefix[1]>> \o u64_to_u8x8(WrapInc64(hash))
        item2 == IterReverse(d, next_prefix)
        end_key == item2[1]
    IN  IF item = None THEN Plan(<<>>, Ok(<<>>))
        ELSE IF SubSeq(start_key, 1, 9) # prefix THEN Plan(<<>>, Ok(<<>>))
        ELSE IF hash = MAX_U64 /\ overflow_checks THEN Plan(<<>>, Err("panic"))
        ELSE IF item2 = None THEN Plan(<<BDelete(start_key)>>, Ok(<<>>))
        ELSE IF SubSeq(end_key, 1, 9) # prefix THEN Plan(<<BDelete(start_key)>>, Ok(<<>>))
        ELSE Plan((IF start_key # end_key THEN <<BDeleteRange(start_key, end_key)>>
                   ELSE <<>>) \o <<BDelete(end_key)>>,
                  Ok(<<>>))

\* ArrayMap::remove: the child List, then the child Map
ArrayMap_remove(d, am, name, overflow_checks) ==
    LET r == Exec(d, LodisData_remove(d, am.list, name \o "@list", overflow_checks))
    IN  IF ~r.ret.ok THEN r
        ELSE Exec(r.db, LodisData_remove(r.db, am.map, name \o "@map", overflow_checks))

(***************************************************************************)
(* Sequential use of one List: the requests arrive one at a time.          *)
(***************************************************************************)
Values == {<<97>>, <<98>>}
ValueSeqs == {<<>>} \cup {<<v>> : v \in Values} \cup {<<v, w>> : v \in Values, w \in Values}

\* slots within k of slot 0, on both sides of the ring
Around0(k) == {WrapAdd32(ZERO_U32, j) : j \in (0 - k)..k}
AbsIndexes == Around0(MaxDrift + 1)
RelIndexes == (0 - (MaxLen + 1))..(MaxLen + 1)

\* one request at a time: no server thread is at work and no mutex is held
Sequential == threads = <<>> /\ locks = <<>>

\* the builds: with overflow checks (debug) and without (release)
Builds == BOOLEAN

NoOp == [op |-> "init", args |-> <<>>, ret |-> Ok(<<>>), pre |-> EmptyDB]

\* `last` records one request, the last one of a run: the requests before it
\* leave last = NoOp, and the recorded request ends the run.
Record(op, args, ret) ==
    \/ last' = [op |-> op, args |-> args, ret |-> ret, pre |-> db]
    \/ last' = NoOp

\* one whole method call on the store: commit its batch
Do(op, args, plan) ==
    /\ last = NoOp
    /\ db' = Write(db, plan.batch)
    /\ Record(op, args, plan.ret)
    /\ UNCHANGED <<cname, threads, locks>>

LP == List_new(cname)

\* the element slots stored under prefix p
ElemIndexes(d, p) ==
    {u8x4_to_u32(SubSeq(k, 11, 14)) :
        k \in {x \in DOMAIN d : Len(x) = 14 /\ SubSeq(x, 1, 9) = p /\ x[10] = 36}}

CanPush(d, p, n) ==
    /\ U32ToInt(List_length(d, p)) + n <= MaxLen
    /\ PushIndex(List_tail(d, p), n + 1) \in Around0(MaxDrift)
CanPushLeft(d, p, n) ==
    /\ U32ToInt(List_length(d, p)) + n <= MaxLen
    /\ PushLeftIndex(List_head(d, p), n + 1) \in Around0(MaxDrift)

LPush ==
    \E values \in ValueSeqs :
        /\ CanPush(db, LP, Len(values))
        /\ Do("push", <<values>>, List_push(db, LP, values))
LPushLeft ==
    \E values \in ValueSeqs :
        /\ CanPushLeft(db, LP, Len(values))
        /\ Do("push_left", <<values>>, List_push_left(db, LP, values))
LPop == Do("pop", <<>>, List_pop(db, LP))
LPopLeft == Do("pop_left", <<>>, List_pop_left(db, LP))
LPopRandom ==
    \E r \in List_random_index(db, LP) :
        Do("pop_random", <<r>>, List_pop_random(db, LP, r))
LDelete ==
    \E index \in RelIndexes :
        Do("delete", <<index>>, List_delete(db, LP, index))
LDeleteAbs ==
    \E abs_index \in AbsIndexes :
        Do("delete_with_abs_index", <<abs_index>>,
           List_delete_with_abs_index(db, LP, abs_index))
LSetByAbsIndex ==
    \E abs_index \in AbsIndexes, value \in Values :
        Do("set_by_absindex", <<abs_index, value>>,
           List_set_by_absindex(db, LP, abs_index, value))

\* the i64 indexes q * 2^32 + r asked for: around 0, just below 2^32 and
\* just above -2^32 (and a few beyond those two)
FarIndexes == {<<q, r>> : q \in {-1, 0, 1}, r \in RelIndexes}
Positions == 0..(MaxLen + 1)
Directions == {"Forward", "Reverse"}

\* the reads: they commit nothing
LIndex ==
    \E i \in FarIndexes :
        Do("index", i, Plan(<<>>, Ok(List_index_far(db, LP, i[1], i[2]))))
LRange ==
    \E start \in Positions, end \in Positions, direction \in Directions :
        Do("range", <<start, end, direction>>,
           Plan(<<>>, Ok(List_range(db, LP, start, end, direction))))
LAll == Do("all", <<>>, Plan(<<>>, Ok(List_all(db, LP))))

LRandom ==
    \E r \in List_random_index(db, LP) :
        Do("random", <<r>>, Plan(<<>>, Ok(List_random(db, LP, r))))

InitList ==
    /\ db = EmptyDB
    /\ cname = "abc"
    /\ last = NoOp
    /\ Sequential

NextList ==
    \/ LPush
    \/ LPushLeft
    \/ LPop
    \/ LPopLeft
    \/ LPopRandom
    \/ LDelete
    \/ LDeleteAbs
    \/ LSetByAbsIndex
    \/ LIndex
    \/ LRange
    \/ LAll
    \/ LRandom

SpecList == InitList /\ [][NextList]_vars

(***************************************************************************)
(* C1. List window consistency: after any sequence of push, push_left,     *)
(* pop, pop_left, pop_random, delete, delete_with_abs_index and            *)
(* set_by_absindex calls on an initially empty list, the stored length is  *)
(* the number of stored element keys, the element keys are exactly the     *)
(* slots head+1 .. tail-1 (mod 2^32), and length = (tail - head - 1) mod   *)
(* 2^32.                                                                   *)
(***************************************************************************)
WindowConsistent(d, p) ==
    LET n == Cardinality(ElemIndexes(d, p))
        head == List_head(d, p)
    IN  /\ List_length(d, p) = IntToU32(n)
        /\ ElemIndexes(d, p) = {WrapAdd32(head, j) : j \in 1..n}
        /\ List_tail(d, p) = WrapAdd32(head, n + 1)

C1_ListWindowConsistency == WindowConsistent(db, LP)

\* a swap-delete has just moved the first element into the middle of a
\* window that wraps around slot 0
C1_Witness ==
    /\ last.op \in {"delete", "delete_with_abs_index"}
    /\ Cardinality(ElemIndexes(last.pre, LP)) >= 3
    /\ Cardinality(ElemIndexes(db, LP)) = Cardinality(ElemIndexes(last.pre, LP)) - 1
    /\ List_head(db, LP) # List_head(last.pre, LP)
    /\ List_tail(db, LP) = List_tail(last.pre, LP)
    /\ Lt32(List_tail(db, LP), List_head(db, LP))
    /\ WindowConsistent(db, LP)

\* the values of the list, first to last: position k (from 1) is slot head + k
Elements(d, p) ==
    [k \in 1..Cardinality(ElemIndexes(d, p)) |-> d[ElemKey(p, WrapAdd32(List_head(d, p), k))]]

\* how many slots of the list hold value v
Count(d, p, v) == Cardinality({i \in ElemIndexes(d, p) : d[ElemKey(p, i)] = v})

\* from store pre to store post, the value held by `slot` left the list and
\* nothing else did
RemovedOne(pre, post, p, slot) ==
    /\ U32ToInt(List_length(post, p)) = U32ToInt(List_length(pre, p)) - 1
    /\ \A v \in Values :
           Count(post, p, v) = Count(pre, p, v) - (IF pre[ElemKey(p, slot)] = v THEN 1 ELSE 0)

(***************************************************************************)
(* C11. Swap-delete: on a list of length n >= 1, delete(i) for every       *)
(* relative index 0 <= i < n, and delete_with_abs_index for every live     *)
(* absolute index, decreases length by exactly 1 and leaves the multiset   *)
(* of stored values equal to the prior multiset minus the value that was   *)
(* at the deleted position.                                                *)
(***************************************************************************)
C11_DeleteRemovesOne ==
    /\ (/\ last.op = "delete"
        /\ last.args[1] >= 0
        /\ last.args[1] < U32ToInt(List_length(last.pre, LP)))
       => /\ last.ret.ok
          /\ RemovedOne(last.pre, db, LP, WrapAdd32(List_head(last.pre, LP), 1 + last.args[1]))
    /\ (/\ last.op = "delete_with_abs_index"
        /\ last.args[1] \in ElemIndexes(last.pre, LP))
       => /\ last.ret.ok
          /\ RemovedOne(last.pre, db, LP, last.args[1])

\* delete(i) of a middle element between two elements of another value
C11_Witness ==
    /\ last.op = "delete"
    /\ last.args[1] >= 1
    /\ last.args[1] < U32ToInt(List_length(last.pre, LP)) - 1
    /\ Elements(last.pre, LP)[1 + last.args[1]] # Elements(last.pre, LP)[1]
    /\ U32ToInt(List_length(db, LP)) = U32ToInt(List_length(last.pre, LP)) - 1

(***************************************************************************)
(* C13. Wrap-around of push: a fresh list has head = 2^32 - 1, tail = 0    *)
(* and length = 0; push on it assigns index 0 and push_left 2^32 - 1;      *)
(* push(values) returns the consecutive indices old_tail, old_tail + 1,    *)
(* ... (mod 2^32) and push_left(values) returns old_head, old_head - 1,    *)
(* ... (mod 2^32), one per value in input order, each holding its value,   *)
(* and moves tail (resp. head) past the last assigned index; push_left([x])*)
(* then push([y]) on a fresh list gives head = 2^32 - 2 and tail = 1.      *)
(***************************************************************************)
\* the store of a fresh list after push_left([x])
AfterPushLeftOne(x) == Write(EmptyDB, List_push_left(EmptyDB, LP, <<x>>).batch)

C13_PushIndices ==
    /\ db = EmptyDB =>
           /\ List_head(db, LP) = <<65535, 65535>>
           /\ List_tail(db, LP) = <<0, 0>>
           /\ List_length(db, LP) = <<0, 0>>
    /\ last.op = "push" =>
           LET values == last.args[1]
               n == Len(values)
               old_tail == List_tail(last.pre, LP)
           IN  /\ last.ret.ok
               /\ last.ret.val = [j \in 1..n |-> WrapAdd32(old_tail, j - 1)]
               /\ \A j \in 1..n : Get(db, ElemKey(LP, last.ret.val[j])) = Some(values[j])
               /\ List_tail(db, LP) = WrapAdd32(old_tail, n)
               /\ List_head(db, LP) = List_head(last.pre, LP)
               /\ last.pre = EmptyDB /\ n >= 1 => last.ret.val[1] = <<0, 0>>
               /\ (n = 1 /\ \E x \in Values : last.pre = AfterPushLeftOne(x)) =>
                      /\ List_head(db, LP) = <<65535, 65534>>
                      /\ List_tail(db, LP) = <<0, 1>>
    /\ last.op = "push_left" =>
           LET values == last.args[1]
               n == Len(values)
               old_head == List_head(last.pre, LP)
           IN  /\ last.ret.ok
               /\ last.ret.val = [j \in 1..n |-> WrapAdd32(old_head, 1 - j)]
               /\ \A j \in 1..n : Get(db, ElemKey(LP, last.ret.val[j])) = Some(values[j])
               /\ List_head(db, LP) = WrapAdd32(old_head, 0 - n)
               /\ List_tail(db, LP) = List_tail(last.pre, LP)
               /\ last.pre = EmptyDB /\ n >= 1 => last.ret.val[1] = <<65535, 65535>>

\* push([y]) has just followed push_left([x]) on a fresh list
C13_Witness ==
    /\ last.op = "push"
    /\ Len(last.args[1]) = 1
    /\ \E x \in Values : last.pre = AfterPushLeftOne(x)
    /\ List_head(db, LP) = <<65535, 65534>>
    /\ List_tail(db, LP) = <<0, 1>>
    /\ U32ToInt(List_length(db, LP)) = 2

(***************************************************************************)
(* C14. set_by_absindex(absidx, v) returns out-of-range and leaves the     *)
(* store unchanged for every absidx that is not a live slot (the head      *)
(* slot, the tail slot, any slot outside the window, in both shapes        *)
(* head < tail and head >= tail, and every slot of an empty list); for a   *)
(* live slot it overwrites the value of that slot only: head, tail, length *)
(* and all other slots are unchanged.                                      *)
(***************************************************************************)
\* the slots head + 1 .. tail - 1 on the ring
LiveSlots(d, p) ==
    {WrapAdd32(List_head(d, p), k) : k \in 1..U32ToInt(List_length(d, p))}

C14_SetByAbsIndex ==
    last.op = "set_by_absindex" =>
        LET abs_index == last.args[1]
            value == last.args[2]
        IN  IF abs_index \in LiveSlots(last.pre, LP)
            THEN /\ last.ret.ok
                 /\ db = [last.pre EXCEPT ![ElemKey(LP, abs_index)] = value]
            ELSE /\ last.ret = Err("OutOfRange")
                 /\ db = last.pre

\* in a window that wraps around slot 0 (head >= tail), a live slot on
\* each side of 0 exists and one of them has been given another value
C14_Witness ==
    /\ last.op = "set_by_absindex"
    /\ Le32(List_tail(last.pre, LP), List_head(last.pre, LP))
    /\ <<0, 0>> \in LiveSlots(last.pre, LP)
    /\ <<65535, 65535>> \in LiveSlots(last.pre, LP)
    /\ last.args[1] \in LiveSlots(last.pre, LP)
    /\ last.ret.ok
    /\ db # last.pre
    /\ db[ElemKey(LP, last.args[1])] = last.args[2]

(***************************************************************************)
(* C16. pop() returns the value of the last live element (slot tail - 1)   *)
(* and pop_left() that of the first (slot head + 1); each removes exactly  *)
(* that element, moves that cursor one slot inward and decreases length by *)
(* 1, leaving all other elements and the other cursor unchanged; on an     *)
(* empty list both return none and leave the store unchanged.              *)
(***************************************************************************)
\* from store pre to store post, the element of `slot` is gone and every
\* other element is where and what it was
OnlySlotRemoved(pre, post, p, slot) ==
    /\ ElemIndexes(post, p) = ElemIndexes(pre, p) \ {slot}
    /\ \A i \in ElemIndexes(post, p) : post[ElemKey(p, i)] = pre[ElemKey(p, i)]
    /\ U32ToInt(List_length(post, p)) = U32ToInt(List_length(pre, p)) - 1

C16_PopEnds ==
    /\ last.op = "pop" =>
           LET slot == WrapAdd32(List_tail(last.pre, LP), -1)
           IN  IF List_length(last.pre, LP) = <<0, 0>>
               THEN last.ret = Ok(None) /\ db = last.pre
               ELSE /\ slot \in ElemIndexes(last.pre, LP)
                    /\ last.ret = Ok(Some(last.pre[ElemKey(LP, slot)]))
                    /\ OnlySlotRemoved(last.pre, db, LP, slot)
                    /\ List_tail(db, LP) = slot
                    /\ List_head(db, LP) = List_head(last.pre, LP)
    /\ last.op = "pop_left" =>
           LET slot == WrapAdd32(List_head(last.pre, LP), 1)
           IN  IF List_length(last.pre, LP) = <<0, 0>>
               THEN last.ret = Ok(None) /\ db = last.pre
               ELSE /\ slot \in ElemIndexes(last.pre, LP)
                    /\ last.ret = Ok(Some(last.pre[ElemKey(LP, slot)]))
                    /\ OnlySlotRemoved(last.pre, db, LP, slot)
                    /\ List_head(db, LP) = slot
                    /\ List_tail(db, LP) = List_tail(last.pre, LP)

\* pop has taken the element of slot 2^32 - 1 off a list whose tail was 0
\* and that held two elements or more
C16_Witness ==
    /\ last.op = "pop"
    /\ List_tail(last.pre, LP) = <<0, 0>>
    /\ U32ToInt(List_length(last.pre, LP)) >= 2
    /\ last.ret.val = Some(last.pre[ElemKey(LP, <<65535, 65535>>)])
    /\ List_tail(db, LP) = <<65535, 65535>>
    /\ ElemKey(LP, <<65535, 65535>>) \notin DOMAIN db

(***************************************************************************)
(* C15. For a list of length n: index(i) with 0 <= i < n returns the       *)
(* element at position i counted from the first element; index(i) with     *)
(* -n <= i < 0 returns the element at position n + i (index(-1) is the     *)
(* last); index(i) with n <= i < 2^32 or -2^32 <= i < -n returns none;     *)
(* index never modifies the store.                                         *)
(***************************************************************************)
C15_IndexPositions ==
    last.op = "index" =>
        LET q == last.args[1]
            r == last.args[2]
            els == Elements(last.pre, LP)
            n == U32ToInt(List_length(last.pre, LP))
        IN  /\ db = last.pre
            /\ last.ret.ok
            /\ q = 0 /\ 0 <= r /\ r < n => last.ret.val = Some(els[r + 1])
            /\ q = 0 /\ 0 - n <= r /\ r < 0 => last.ret.val = Some(els[n + r + 1])
            /\ (q = 0 /\ r >= n) \/ (q = 1 /\ r < 0) => last.ret.val = None
            /\ (q = 0 /\ r < 0 - n) \/ (q = -1 /\ r >= 0) => last.ret.val = None

\* index(-2) has returned the element before the last of a list whose
\* window wraps around slot 0
C15_Witness ==
    /\ last.op = "index"
    /\ last.args = <<0, -2>>
    /\ U32ToInt(List_length(last.pre, LP)) >= 3
    /\ List_tail(last.pre, LP) = <<0, 1>>
    /\ last.ret.val = Some(last.pre[ElemKey(LP, <<65535, 65535>>)])
    /\ last.pre[ElemKey(LP, <<65535, 65535>>)] # last.pre[ElemKey(LP, <<0, 0>>)]

(***************************************************************************)
(* C17. For a list of length n and start <= end <= n: range(start, end,    *)
(* Forward) returns exactly the elements at positions start..end-1 counted *)
(* from the first element, in that order, and range(start, end, Reverse)   *)
(* the elements at positions start..end-1 counted from the last element    *)
(* backwards; range(0, n, Forward) equals all(); positions at or beyond n  *)
(* (empty slots) contribute no output instead of an error.                 *)
(***************************************************************************)
Min(a, b) == IF a < b THEN a ELSE b

C17_RangePositions ==
    /\ last.op = "range" /\ last.args[1] <= last.args[2] =>
           LET start == last.args[1]
               els == Elements(last.pre, LP)
               n == U32ToInt(List_length(last.pre, LP))
               end == Min(last.args[2], n)
           IN  /\ db = last.pre
               /\ last.ret.ok
               /\ last.args[3] = "Forward" =>
                      last.ret.val = [k \in 1..(end - start) |-> els[start + k]]
               /\ last.args[3] = "Reverse" =>
                      last.ret.val = [k \in 1..(end - start) |-> els[n - start - k + 1]]
               /\ last.args = <<0, n, "Forward">> => last.ret.val = List_all(last.pre, LP)
    /\ last.op = "all" =>
           /\ db = last.pre
           /\ last.ret = Ok(Elements(last.pre, LP))

\* a Reverse range over the middle of a list of four elements whose window
\* wraps around slot 0
C17_Witness ==
    /\ last.op = "range"
    /\ last.args = <<1, 3, "Reverse">>
    /\ U32ToInt(List_length(last.pre, LP)) = 4
    /\ Lt32(List_tail(last.pre, LP), List_head(last.pre, LP))
    /\ Len(last.ret.val) = 2
    /\ last.ret.val[1] # last.ret.val[2]
    /\ last.ret.val = <<Elements(last.pre, LP)[3], Elements(last.pre, LP)[2]>>

\* the slot a recorded delete or delete_with_abs_index names
Victim ==
    IF last.op = "delete" THEN List_abs_index(last.pre, LP, last.args[1])
    ELSE last.args[1]

(***************************************************************************)
(* C26. Deleting a list element that is neither the first nor the last     *)
(* live element, at relative position r of the sequence e0, e1, ...,       *)
(* e(n-1), yields the sequence e1, ..., e(r-1), e0, e(r+1), ..., e(n-1):   *)
(* the former first element takes the victim's absolute slot, head         *)
(* advances by one, tail is unchanged, and the relative order and absolute *)
(* slots of all other elements are unchanged; deleting the first or last   *)
(* element removes it without moving any other element.                    *)
(***************************************************************************)
C26_DeleteMovesFirst ==
    (/\ last.op \in {"delete", "delete_with_abs_index"}
     /\ Victim \in ElemIndexes(last.pre, LP)) =>
        LET els == Elements(last.pre, LP)
            n == Len(els)
            first == WrapAdd32(List_head(last.pre, LP), 1)
            r == CHOOSE i \in 0..(n - 1) : WrapAdd32(List_head(last.pre, LP), 1 + i) = Victim
            gone == IF r = n - 1 /\ r # 0 THEN Victim ELSE first
        IN  /\ last.ret.ok
            /\ ElemIndexes(db, LP) = ElemIndexes(last.pre, LP) \ {gone}
            /\ \A i \in ElemIndexes(db, LP) \ {Victim} :
                   db[ElemKey(LP, i)] = last.pre[ElemKey(LP, i)]
            /\ IF r # 0 /\ r # n - 1
               THEN /\ db[ElemKey(LP, Victim)] = els[1]
                    /\ Elements(db, LP)
                           = [k \in 1..(n - 1) |-> IF k = r THEN els[1] ELSE els[k + 1]]
                    /\ List_head(db, LP) = first
                    /\ List_tail(db, LP) = List_tail(last.pre, LP)
               ELSE /\ Elements(db, LP)
                           = [k \in 1..(n - 1) |-> IF r = 0 THEN els[k + 1] ELSE els[k]]
                    /\ List_head(db, LP)
                           = (IF r = 0 THEN Victim ELSE List_head(last.pre, LP))
                    /\ List_tail(db, LP)
                           = (IF r = 0 THEN List_tail(last.pre, LP) ELSE Victim)

\* delete has removed the third of four elements, whose value differs from
\* the first one's, on a window that wraps around slot 0
C26_Witness ==
    /\ last.op = "delete"
    /\ last.args[1] = 2
    /\ Len(Elements(last.pre, LP)) = 4
    /\ Lt32(List_tail(last.pre, LP), List_head(last.pre, LP))
    /\ Elements(last.pre, LP)[1] # Elements(last.pre, LP)[3]
    /\ Elements(last.pre, LP)[2] # Elements(last.pre, LP)[1]
    /\ last.ret.ok
    /\ Elements(db, LP)
           = <<Elements(last.pre, LP)[2], Elements(last.pre, LP)[1], Elements(last.pre, LP)[4]>>
    /\ List_head(db, LP) = WrapAdd32(List_head(last.pre, LP), 1)

(***************************************************************************)
(* C23. On a list of length n >= 1, random() and pop_random() select a     *)
(* relative index from the whole of [0, n): the result is always the value *)
(* of a live element and every live element, including the last one, is a  *)
(* possible result; on an empty list both return none and change nothing.  *)
(***************************************************************************)
C23_RandomCoversList ==
    LET n == U32ToInt(List_length(db, LP))
    IN  /\ n >= 1 =>
               /\ \A r \in List_random_index(db, LP) :
                      r \in 0..(n - 1) /\ List_index(db, LP, r) # None
               /\ \A i \in 0..(n - 1) : i \in List_random_index(db, LP)
        /\ last.op \in {"random", "pop_random"} =>
               IF List_length(last.pre, LP) = ZERO_U32
               THEN last.ret = Ok(None) /\ db = last.pre
               ELSE /\ last.ret.ok
                    /\ last.ret.val
                           = Get(last.pre,
                                 ElemKey(LP, WrapAdd32(List_head(last.pre, LP),
                                                       1 + last.args[1])))
                    /\ last.ret.val # None

(***************************************************************************)
(* Sequential use of one Map.                                              *)
(***************************************************************************)
\* |numbers| an increase may reach
MaxNum == 10

MapKeys == {<<97>>, <<98>>, <<99>>}
MapValues == {<<120>>, <<49>>}
\* -10, 10 and i64::MAX
Incrs == {<<0, 0 - 10>>, <<0, 10>>, <<1, 0>>}
Pairs == {<<k, v>> : k \in MapKeys, v \in MapValues}
PairSeqs == {<<>>} \cup {<<a>> : a \in Pairs} \cup {<<a, b>> : a \in Pairs, b \in Pairs}

MP == Map_new(cname)

\* the user keys stored under prefix p
EntryKeys(d, p) ==
    {SubSeq(k, 11, Len(k)) :
        k \in {x \in DOMAIN d : Len(x) >= 10 /\ SubSeq(x, 1, 9) = p /\ x[10] = 58}}

\* an increase the model takes: the sum stays within MaxNum of 0 or of an
\* end of the i64 range
NearAnchor(x) == x[2] <= MaxNum /\ 0 - x[2] <= MaxNum
IncrInRange(value, incr) ==
    \/ value = None
    \/ value # None /\ parse_i64(value[1]) = None
    \/ /\ value # None
       /\ parse_i64(value[1]) # None
       /\ incr[1] # 0 => parse_i64(value[1])[1] = <<0, 0>>
       /\ NearAnchor(i64_add(parse_i64(value[1])[1], incr, FALSE)[1])

\* a call that can add n entries is taken only while the stored length
\* leaves room for them
MapRoom(n) == U32ToInt(Map_length(db, MP)) + n <= MaxLen

MSet == \E key \in MapKeys, value \in MapValues :
            /\ MapRoom(1)
            /\ Do("set", <<key, value>>, Map_set(db, MP, key, value))
MSetnx == \E key \in MapKeys, value \in MapValues :
            /\ MapRoom(1)
            /\ Do("setnx", <<key, value>>, Map_setnx(db, MP, key, value))
MIncrease ==
    \E key \in MapKeys, incr \in Incrs, checks \in Builds :
        /\ MapRoom(1)
        /\ IncrInRange(Map_get(db, MP, key), incr)
        /\ Do("increase", <<key, incr, checks>>, Map_increase(db, MP, key, incr, checks))
MDelete == \E key \in MapKeys : Do("delete", <<key>>, Map_delete(db, MP, key))
MMset == \E kvs \in PairSeqs :
            /\ MapRoom(Len(kvs))
            /\ Do("mset", <<kvs>>, Map_mset(db, MP, kvs))

\* the reads: they commit nothing
MKeys == Do("keys", <<>>, Plan(<<>>, Ok(Map_keys(db, MP))))
MValues == Do("values", <<>>, Plan(<<>>, Ok(Map_values(db, MP))))
MAll == Do("all", <<>>, Plan(<<>>, Ok(Map_all(db, MP))))

\* the store the Map is created in: empty, or holding a List and an ArrayMap
\* of the same name, of one element each
Neighbours ==
    ArrayMap_push(Exec(EmptyDB, List_push(EmptyDB, List_new("abc"), <<(<<97>>)>>)).db,
                  ArrayMap_new("abc"), <<(<<(<<97>>), (<<120>>)>>)>>).db

InitMap ==
    /\ db \in {EmptyDB, Neighbours}
    /\ cname = "abc"
    /\ last = NoOp
    /\ Sequential

NextMap ==
    \/ MSet
    \/ MSetnx
    \/ MIncrease
    \/ MDelete
    \/ MMset
    \/ MKeys
    \/ MValues
    \/ MAll

SpecMap == InitMap /\ [][NextMap]_vars

(***************************************************************************)
(* C3. After any sequence of Map set, setnx, increase, delete and mset     *)
(* calls (mset possibly naming a key more than once), length() equals the  *)
(* number of entries stored under the map.                                 *)
(***************************************************************************)
MapLengthExact(d, p) == Map_length(d, p) = IntToU32(Cardinality(EntryKeys(d, p)))

C3_MapLengthIsEntryCount == MapLengthExact(db, MP)

\* the value of the last pair of the call that names key
LastValueFor(pairs, key) ==
    LET js == {j \in 1..Len(pairs) : pairs[j][1] = key}
    IN  pairs[CHOOSE j \in js : \A i \in js : i <= j][2]

\* the recorded request left every key other than `key` as it was
OtherKeysSame(key) ==
    \A k \in MapKeys \ {key} : Map_get(db, MP, k) = Map_get(last.pre, MP, k)

\* the stored length moved by incr over the recorded request
LengthMoved(incr) ==
    U32ToInt(Map_length(db, MP)) = U32ToInt(Map_length(last.pre, MP)) + incr

(***************************************************************************)
(* C27. Map.setnx(k, v) on a present key and Map.delete(k) on an absent    *)
(* key leave the entire store unchanged (value and length); setnx on an    *)
(* absent key stores v and raises length by 1; set on a present key        *)
(* replaces the value with length unchanged; delete on a present key       *)
(* removes it and lowers length by 1.                                      *)
(***************************************************************************)
C27_SetnxDeleteFrame ==
    LET key == last.args[1]
        present == Map_exists(last.pre, MP, key)
    IN  /\ last.op = "setnx" =>
               /\ last.ret.ok
               /\ IF present THEN db = last.pre
                  ELSE /\ Map_get(db, MP, key) = Some(last.args[2])
                       /\ LengthMoved(1)
                       /\ OtherKeysSame(key)
        /\ (last.op = "set" /\ present) =>
               /\ last.ret.ok
               /\ Map_get(db, MP, key) = Some(last.args[2])
               /\ LengthMoved(0)
               /\ OtherKeysSame(key)
        /\ last.op = "delete" =>
               /\ last.ret.ok
               /\ IF ~present THEN db = last.pre
                  ELSE /\ Map_get(db, MP, key) = None
                       /\ ~Map_exists(db, MP, key)
                       /\ LengthMoved(-1)
                       /\ OtherKeysSame(key)

\* setnx has named a present key, with a value other than the stored one,
\* in a map of two entries or more, and has changed nothing
C27_Witness ==
    /\ last.op = "setnx"
    /\ Map_exists(last.pre, MP, last.args[1])
    /\ Map_get(last.pre, MP, last.args[1]) # Some(last.args[2])
    /\ Cardinality(EntryKeys(last.pre, MP)) >= 2
    /\ last.ret.ok
    /\ db = last.pre

(***************************************************************************)
(* C28. After Map.mset(pairs), for every key k in pairs get(k) returns the *)
(* value of the last pair with key k, every key not in pairs is unchanged, *)
(* and length has increased by exactly the number of distinct keys of      *)
(* pairs that were absent before the call.                                 *)
(***************************************************************************)
C28_MsetLastPairWins ==
    last.op = "mset" =>
        LET pairs == last.args[1]
            named == {pairs[j][1] : j \in 1..Len(pairs)}
        IN  /\ last.ret.ok
            /\ \A k \in named : Map_get(db, MP, k) = Some(LastValueFor(pairs, k))
            /\ \A k \in MapKeys \ named : Map_get(db, MP, k) = Map_get(last.pre, MP, k)
            /\ LengthMoved(Cardinality({k \in named : ~Map_exists(last.pre, MP, k)}))

\* the stored keys that begin with prefix ‖ ":", smallest first: the scan
\* that runs until the prefix ends
ScanPrefix(d, p) ==
    LET under == {k \in DOMAIN d : Len(k) >= 10 /\ SubSeq(k, 1, 10) = p \o <<58>>}
    IN  TakeFrom(under, Cardinality(under))

(***************************************************************************)
(* C29. After any sequence of Map operations, with other collections       *)
(* present in the same store, keys(), values() and all() (which stop after *)
(* `length` entries of a scan starting at prefix ‖ ":") return exactly the *)
(* entries of this map, in key order: the same result as scanning until    *)
(* the prefix ends, with no entry missing and no key from the map's own    *)
(* metadata or from another collection included.                           *)
(***************************************************************************)
C29_ScanStopsAtLength ==
    LET ks == ScanPrefix(last.pre, MP)
    IN  /\ last.op = "keys" => last.ret = Ok(ks)
        /\ last.op = "values" =>
               last.ret = Ok([j \in 1..Len(ks) |-> last.pre[ks[j]]])
        /\ last.op = "all" =>
               last.ret = Ok([j \in 1..Len(ks) |-> <<ks[j], last.pre[ks[j]]>>])

\* the decimal numeral of the integer r (a = 0), 2^63 - 1 + r (a = 1) or
\* -2^63 + r (a = -1), also where that integer lies outside the i64 range
Decimal(x) ==
    CASE x[1] = 0 -> IF x[2] < 0 THEN <<45>> \o NatToBytes(0 - x[2]) ELSE NatToBytes(x[2])
      [] x[1] = 1 -> I64_HEAD \o Pad4(I64_MAX_LOW + x[2])
      [] x[1] = -1 -> <<45>> \o I64_HEAD \o Pad4(I64_MIN_LOW - x[2])

\* the integer x + y, for two numbers that are not near the same end of the
\* i64 range
Sum(x, y) ==
    IF x[1] + y[1] = 0 /\ x[1] # 0 THEN <<0, x[2] + y[2] - 1>>
    ELSE <<x[1] + y[1], x[2] + y[2]>>

\* an optional sign followed by one or more digits
IsSignedDecimal(bytes) ==
    LET ds == IF bytes # <<>> /\ bytes[1] \in {43, 45} THEN Tail(bytes) ELSE bytes
    IN  ds # <<>> /\ \A j \in 1..Len(ds) : IsDigit(ds[j])

(***************************************************************************)
(* C12. Map.increase: on an absent key k, increase(k, a) followed by       *)
(* increase(k, b) leaves get(k) equal to the ASCII decimal of a + b and    *)
(* raises length by exactly 1 in total (the first call stores the decimal  *)
(* of a and adds the entry, the second adds b to it); increase on a key    *)
(* whose value is not a signed decimal integer returns not-numeric and     *)
(* leaves every key, value and the length unchanged.                       *)
(***************************************************************************)
C12_IncreaseSums ==
    last.op = "increase" =>
        LET key == last.args[1]
            b == last.args[2]
            old == Map_get(last.pre, MP, key)
        IN  /\ old = None =>
                   /\ last.ret.ok
                   /\ Map_get(db, MP, key) = Some(Decimal(b))
                   /\ U32ToInt(Map_length(db, MP)) = U32ToInt(Map_length(last.pre, MP)) + 1
            /\ \A a \in Incrs :
                   old = Some(Decimal(a)) /\ a[1] + b[1] \in {-1, 0, 1} =>
                       /\ last.ret.ok
                       /\ Map_get(db, MP, key) = Some(Decimal(Sum(a, b)))
                       /\ Map_length(db, MP) = Map_length(last.pre, MP)
            /\ old # None /\ ~IsSignedDecimal(old[1]) =>
                   /\ last.ret = Err("IsNotNumeric")
                   /\ db = last.pre

(***************************************************************************)
(* Sequential use of one ArrayMap.                                         *)
(***************************************************************************)
AMKeys == {<<97>>, <<98>>, <<99>>}
AMValues == {<<120>>, <<49, 48>>}
AMPairs == {<<k, v>> : k \in AMKeys, v \in AMValues}
\* calls with one pair, with the same key twice, and with two keys
AMPairSeqs ==
    {<<a>> : a \in AMPairs}
        \cup {<<(<<(<<97>>), v>>), (<<k, w>>)>> :
                 v \in {<<120>>}, k \in {<<97>>, <<98>>}, w \in {<<49, 48>>}}

AM == ArrayMap_new(cname)

\* every Map entry points at a List slot that holds its key hash, and the
\* two lengths agree
Bijection(d, am) ==
    /\ List_length(d, am.list) = Map_length(d, am.map)
    /\ \A h \in EntryKeys(d, am.map) :
          LET slot == List_index_with_abs(d, am.list, index_of(d[EntryKey(am.map, h)]))
          IN  slot # None /\ Len(slot[1]) >= 8 /\ keyhash(slot[1]) = h

\* a whole ArrayMap operation: r = [db, ret].  A run is followed past a state
\* without the bijection for one more request, the recorded one.
DoAM(op, args, r) ==
    /\ last = NoOp
    /\ db' = r.db
    /\ \/ last' = [op |-> op, args |-> args, ret |-> r.ret, pre |-> db]
       \/ last' = NoOp /\ Bijection(db, AM)
    /\ UNCHANGED <<cname, threads, locks>>

\* the pushes the model takes keep the List cursors near slot 0
AMRoom(n) == CanPush(db, AM.list, n) /\ CanPushLeft(db, AM.list, n)

APush == \E pairs \in AMPairSeqs :
            AMRoom(Len(pairs)) /\ DoAM("push", <<pairs>>, ArrayMap_push(db, AM, pairs))
APushnx == \E pairs \in AMPairSeqs :
            AMRoom(Len(pairs)) /\ DoAM("pushnx", <<pairs>>, ArrayMap_pushnx(db, AM, pairs))
APushLeft == \E pairs \in AMPairSeqs :
            AMRoom(Len(pairs))
            /\ DoAM("push_left", <<pairs>>, ArrayMap_push_left(db, AM, pairs))
APushnxLeft == \E pairs \in AMPairSeqs :
            AMRoom(Len(pairs))
            /\ DoAM("pushnx_left", <<pairs>>, ArrayMap_pushnx_left(db, AM, pairs))
\* the increments of a key: i64::MAX is given to key "c" only
AMIncrs(key) == IF key = <<99>> THEN Incrs ELSE {incr \in Incrs : incr[1] = 0}

AIncrease ==
    \E key \in AMKeys, checks \in Builds : \E incr \in AMIncrs(key) :
        /\ AMRoom(1)
        /\ LET got == ArrayMap_get(db, AM, key)
           IN  got.ok => IncrInRange(IF got.val = None THEN None
                                     ELSE Some(value_of(got.val[1])), incr)
        /\ DoAM("increase", <<key, incr, checks>>,
                ArrayMap_increase(db, AM, key, incr, checks))
APop == DoAM("pop", <<>>, ArrayMap_pop(db, AM))
APopLeft == DoAM("pop_left", <<>>, ArrayMap_pop_left(db, AM))
APopRandom ==
    \E r \in List_random_index(db, AM.list) :
        DoAM("pop_random", <<r>>, ArrayMap_pop_random(db, AM, r))
ADelete == \E key \in AMKeys : DoAM("delete", <<key>>, ArrayMap_delete(db, AM, key))

\* the reads: they commit nothing
AKeys == DoAM("keys", <<>>, Result(db, ArrayMap_keys(db, AM)))
AValues == DoAM("values", <<>>, Result(db, ArrayMap_values(db, AM)))

AAll == DoAM("all", <<>>, Result(db, ArrayMap_all(db, AM)))

\* the ranges asked for: from the first position up to any end, and from
\* the second position on
AMRanges == {<<0, end>> : end \in 1..MaxLen} \cup {<<1, MaxLen>>}

ARange ==
    \E range \in AMRanges, direction \in Directions :
        DoAM("range", <<range[1], range[2], direction>>,
             Result(db, ArrayMap_range(db, AM, range[1], range[2], direction)))

InitArrayMap ==
    /\ db = EmptyDB
    /\ cname = "abc"
    /\ last = NoOp
    /\ Sequential

NextArrayMap ==
    \/ APush
    \/ APushnx
    \/ APushLeft
    \/ APushnxLeft
    \/ AIncrease
    \/ APop
    \/ APopLeft
    \/ APopRandom
    \/ ADelete
    \/ AKeys
    \/ AValues
    \/ ARange
    \/ AAll

SpecArrayMap == InitArrayMap /\ [][NextArrayMap]_vars

(***************************************************************************)
(* C2. ArrayMap bijection: after any sequence of ArrayMap operations from  *)
(* an empty ArrayMap, the List length equals the Map length, and for every *)
(* Map entry hash -> i‖K the List slot i exists and its value begins with  *)
(* hash.                                                                   *)
(***************************************************************************)
C2_ArrayMapBijection == Bijection(db, AM)

\* get(key) returned a value, and the value it dereferences to is v
Returns(got, v) == got.ok /\ got.val # None /\ value_of(got.val[1]) = v

(***************************************************************************)
(* C7. ArrayMap get round trip: after push (or push_left) of (K, V),       *)
(* get(K) returns V, whether K was new or is replaced; after pushnx (or    *)
(* pushnx_left) of (K, W) on a key whose get returned a value, get(K)      *)
(* still returns that value.                                               *)
(***************************************************************************)
C7_GetRoundTrip ==
    /\ last.op \in {"push", "push_left"} =>
          \A j \in 1..Len(last.args[1]) :
              Returns(ArrayMap_get(db, AM, last.args[1][j][1]),
                      LastValueFor(last.args[1], last.args[1][j][1]))
    /\ last.op \in {"pushnx", "pushnx_left"} =>
          \A j \in 1..Len(last.args[1]) :
              LET before == ArrayMap_get(last.pre, AM, last.args[1][j][1])
              IN  (before.ok /\ before.val # None) =>
                      ArrayMap_get(db, AM, last.args[1][j][1]) = before

(***************************************************************************)
(* C8. ArrayMap.delete on an ArrayMap with the bijection: for a present    *)
(* key K, exists(K) becomes false, get(K) none, the length drops by one,   *)
(* every other present key keeps its get result and its Map entry records  *)
(* the slot that holds its hash and value; for an absent key the store is  *)
(* unchanged.                                                              *)
(***************************************************************************)
C8_DeleteKeepsBijection ==
    (last.op = "delete" /\ Bijection(last.pre, AM)) =>
        IF ArrayMap_exists(last.pre, AM, last.args[1])
        THEN /\ last.ret.ok
             /\ ~ArrayMap_exists(db, AM, last.args[1])
             /\ ArrayMap_get(db, AM, last.args[1]) = Ok(None)
             /\ U32ToInt(ArrayMap_length(db, AM))
                    = U32ToInt(ArrayMap_length(last.pre, AM)) - 1
             /\ \A k \in AMKeys \ {last.args[1]} :
                    ArrayMap_exists(last.pre, AM, k) =>
                       /\ ArrayMap_get(last.pre, AM, k).ok
                       /\ ArrayMap_get(db, AM, k) = ArrayMap_get(last.pre, AM, k)
             /\ Bijection(db, AM)
        ELSE last.ret.ok /\ db = last.pre

\* delete has removed a key from the middle of three entries: the List moved
\* the former first element into the freed slot and the Map follows it
C8_Witness ==
    /\ last.op = "delete"
    /\ Bijection(last.pre, AM)
    /\ ArrayMap_exists(last.pre, AM, last.args[1])
    /\ U32ToInt(ArrayMap_length(last.pre, AM)) = 3
    /\ U32ToInt(ArrayMap_length(db, AM)) = 2
    /\ List_head(db, AM.list) # List_head(last.pre, AM.list)
    /\ List_tail(db, AM.list) = List_tail(last.pre, AM.list)
    /\ \E k \in AMKeys \ {last.args[1]} :
          /\ ArrayMap_exists(last.pre, AM, k)
          /\ index_of(Map_get(db, AM.map, key_hash(k))[1])
                = index_of(Map_get(last.pre, AM.map, key_hash(last.args[1]))[1])
          /\ ArrayMap_get(db, AM, k) = ArrayMap_get(last.pre, AM, k)

(***************************************************************************)
(* C9. After ArrayMap.pop_random returns the pair of key K on an ArrayMap  *)
(* with the bijection, K is absent and every other key that was present    *)
(* is still present and get returns its unchanged value.                   *)
(***************************************************************************)
C9_PopRandomKeepsOthers ==
    (/\ last.op = "pop_random"
     /\ Bijection(last.pre, AM)
     /\ last.ret.ok
     /\ last.ret.val # None) =>
        /\ ~ArrayMap_exists(db, AM, key_of(last.ret.val[1][1]))
        /\ \A k \in AMKeys \ {key_of(last.ret.val[1][1])} :
              ArrayMap_exists(last.pre, AM, k) =>
                 /\ ArrayMap_exists(db, AM, k)
                 /\ ArrayMap_get(db, AM, k) = ArrayMap_get(last.pre, AM, k)

(***************************************************************************)
(* C19. On a non-empty ArrayMap with the bijection, pop() returns the      *)
(* (key, value) pair of the rightmost List element and pop_left() that of  *)
(* the leftmost; afterwards that key is absent from both List and Map,     *)
(* length has decreased by 1 and every other key is unchanged; on an empty *)
(* ArrayMap both return none and change nothing.                           *)
(***************************************************************************)
\* the request took `element` off the ArrayMap and nothing else
PoppedPair(element) ==
    LET key == CHOOSE k \in AMKeys : key_hash(k) = keyhash(element)
    IN  /\ last.ret.ok
        /\ last.ret.val # None
        /\ key_of(last.ret.val[1][1]) = key
        /\ value_of(last.ret.val[1][2]) = value_of(element)
        /\ ~ArrayMap_exists(db, AM, key)
        /\ \A i \in ElemIndexes(db, AM.list) :
               keyhash(db[ElemKey(AM.list, i)]) # key_hash(key)
        /\ U32ToInt(ArrayMap_length(db, AM)) = U32ToInt(ArrayMap_length(last.pre, AM)) - 1
        /\ U32ToInt(Map_length(db, AM.map)) = U32ToInt(Map_length(last.pre, AM.map)) - 1
        /\ \A k \in AMKeys \ {key} :
               /\ ArrayMap_exists(db, AM, k) = ArrayMap_exists(last.pre, AM, k)
               /\ ArrayMap_get(db, AM, k) = ArrayMap_get(last.pre, AM, k)
               /\ Map_get(db, AM.map, key_hash(k)) = Map_get(last.pre, AM.map, key_hash(k))

C19_PopReturnsEndPair ==
    (last.op \in {"pop", "pop_left"} /\ Bijection(last.pre, AM)) =>
        LET els == Elements(last.pre, AM.list)
        IN  IF ArrayMap_length(last.pre, AM) = <<0, 0>>
            THEN last.ret = Ok(None) /\ db = last.pre
            ELSE PoppedPair(IF last.op = "pop" THEN els[Len(els)] ELSE els[1])

\* pop has returned the pair of the rightmost of three entries with two
\* different values
C19_Witness ==
    /\ last.op = "pop"
    /\ Bijection(last.pre, AM)
    /\ U32ToInt(ArrayMap_length(last.pre, AM)) = 3
    /\ last.ret.ok
    /\ last.ret.val # None
    /\ last.ret.val[1][2] = Elements(last.pre, AM.list)[3]
    /\ value_of(Elements(last.pre, AM.list)[3]) # value_of(Elements(last.pre, AM.list)[1])
    /\ U32ToInt(ArrayMap_length(db, AM)) = 2
    /\ ~ArrayMap_exists(db, AM, key_of(last.ret.val[1][1]))

\* the numbers within MaxNum of 0 and of the two ends of the i64 range
Numbers ==
    {<<0, r>> : r \in (0 - MaxNum)..MaxNum}
        \cup {<<1, r>> : r \in (0 - MaxNum)..0} \cup {<<-1, r>> : r \in 0..MaxNum}

(***************************************************************************)
(* C20. ArrayMap.increase(K, d): on an absent key it appends K at the      *)
(* right end with the ASCII decimal of d as value and raises length by 1;  *)
(* on a present key with a numeric value it stores old + d at the same     *)
(* List index, length and the Map entry unchanged (so increase(K, -10)     *)
(* then increase(K, 10) on an absent K gives get(K) = "0" and one new      *)
(* entry); on a present key with a non-numeric value it returns            *)
(* not-numeric and changes nothing.                                        *)
(***************************************************************************)
C20_IncreaseInPlace ==
    (last.op = "increase" /\ Bijection(last.pre, AM)) =>
        LET key == last.args[1]
            d == last.args[2]
            kh == key_hash(key)
            m == Map_get(last.pre, AM.map, kh)
            slot == index_of(m[1])
            old == value_of(last.pre[ElemKey(AM.list, slot)])
            old_tail == List_tail(last.pre, AM.list)
        IN  IF m = None
            THEN /\ last.ret.ok
                 /\ Get(db, ElemKey(AM.list, old_tail)) = Some(kh \o Decimal(d))
                 /\ List_tail(db, AM.list) = WrapAdd32(old_tail, 1)
                 /\ List_head(db, AM.list) = List_head(last.pre, AM.list)
                 /\ U32ToInt(ArrayMap_length(db, AM))
                        = U32ToInt(ArrayMap_length(last.pre, AM)) + 1
                 /\ Map_get(db, AM.map, kh) = Some(u32_to_u8x4(old_tail) \o key)
                 /\ Bijection(db, AM)
            ELSE IF IsSignedDecimal(old)
            THEN \A a \in Numbers :
                     old = Decimal(a) /\ a[1] + d[1] \in {-1, 0, 1} =>
                         /\ last.ret.ok
                         /\ db = [last.pre EXCEPT ![ElemKey(AM.list, slot)]
                                                     = kh \o Decimal(Sum(a, d))]
            ELSE /\ last.ret = Err("IsNotNumeric")
                 /\ db = last.pre

\* the stores that push and push_left calls of one pair each, on distinct
\* keys, build from the empty ArrayMap "abc"
RECURSIVE PushedFrom(_, _)
PushedFrom(d, keys) ==
    {d} \cup UNION {PushedFrom(ArrayMap_push(d, ArrayMap_new("abc"), <<<<k, v>>>>).db,
                               keys \ {k})
                       \cup PushedFrom(ArrayMap_push_left(d, ArrayMap_new("abc"),
                                                          <<<<k, v>>>>).db,
                                       keys \ {k}) :
                    k \in keys, v \in AMValues}
PushedStores == PushedFrom(EmptyDB, AMKeys)

\* the user key whose hash an element of the List carries
KeyOfElement(element) == CHOOSE k \in AMKeys : key_hash(k) = keyhash(element)

(***************************************************************************)
(* C18. For any sequence of ArrayMap push and push_left calls on distinct  *)
(* keys, keys() lists the user keys in left-to-right List order and        *)
(* values() lists the values in the same order, so keys()[j] is the key of *)
(* values()[j] for every j (after push([(a1,A1)]) then                     *)
(* push_left([(a2,A2)]): keys() = [a2,a1] and values() = [A2,A1]).         *)
(***************************************************************************)
C18_KeysFollowListOrder ==
    /\ last.op = "keys" /\ last.pre \in PushedStores =>
           LET els == Elements(last.pre, AM.list)
               values == ArrayMap_values(last.pre, AM).val
           IN  /\ last.ret.ok
               /\ Len(last.ret.val) = Len(els)
               /\ \A j \in 1..Len(els) :
                      /\ key_of(last.ret.val[j]) = KeyOfElement(els[j])
                      /\ key_hash(key_of(last.ret.val[j])) = keyhash(values[j])
    /\ last.op = "values" /\ last.pre \in PushedStores =>
           /\ last.ret.ok
           /\ last.ret.val = Elements(last.pre, AM.list)

\* every key the pairs name has a Map entry in store d
AllPresent(d, pairs) == \A j \in 1..Len(pairs) : ArrayMap_exists(d, AM, pairs[j][1])

\* the List slot the Map entry of key records in store d
SlotOf(d, key) == ElemKey(AM.list, index_of(d[EntryKey(AM.map, key_hash(key))]))

\* store d with, for each key of the pairs, the slot of the key holding the
\* key's hash and the last value the pairs give it
Replaced(d, pairs) ==
    [k \in DOMAIN d |->
        IF \E j \in 1..Len(pairs) : k = SlotOf(d, pairs[j][1])
        THEN LET key == pairs[CHOOSE j \in 1..Len(pairs) : k = SlotOf(d, pairs[j][1])][1]
             IN  key_hash(key) \o LastValueFor(pairs, key)
        ELSE d[k]]

(***************************************************************************)
(* C21. For an ArrayMap key K that is already present, push and push_left  *)
(* change only the value stored in K's existing List slot (K's absolute    *)
(* index, the Map entry, head, tail, both lengths and all other slots are  *)
(* unchanged), and pushnx and pushnx_left leave the entire store           *)
(* unchanged.                                                              *)
(***************************************************************************)
C21_PushOnPresentKey ==
    (/\ last.op \in {"push", "push_left", "pushnx", "pushnx_left"}
     /\ AllPresent(last.pre, last.args[1])) =>
        /\ last.ret.ok
        /\ IF last.op \in {"pushnx", "pushnx_left"}
           THEN db = last.pre
           ELSE db = Replaced(last.pre, last.args[1])

\* the stores that push calls of one pair each, on distinct keys, build from
\* the empty ArrayMap "abc"
RECURSIVE FilledFrom(_, _)
FilledFrom(d, keys) ==
    {d} \cup UNION {FilledFrom(ArrayMap_push(d, ArrayMap_new("abc"), <<<<k, v>>>>).db,
                               keys \ {k}) :
                    k \in keys, v \in AMValues}
FilledStores == FilledFrom(EmptyDB, AMKeys)

\* the stores left by filling with n distinct keys and deleting one of them
DeletedStores(n) ==
    {ArrayMap_delete(x[1], ArrayMap_new("abc"), x[2]).db :
        x \in {y \in FilledStores \X AMKeys :
                  /\ U32ToInt(ArrayMap_length(y[1], ArrayMap_new("abc"))) = n
                  /\ ArrayMap_exists(y[1], ArrayMap_new("abc"), y[2])}}

(***************************************************************************)
(* C22. After filling an ArrayMap with n distinct keys by push and then    *)
(* deleting any one present key, length() is n-1 and range(0, n, Forward)  *)
(* returns each of the n-1 surviving (key, value) pairs exactly once, each *)
(* key paired with its own value, and does not return the deleted pair.    *)
(***************************************************************************)
C22_RangeAfterDelete ==
    \A n \in 1..Cardinality(AMKeys) :
        (/\ last.op = "range"
         /\ last.args = <<0, n, "Forward">>
         /\ last.pre \in DeletedStores(n)) =>
            /\ U32ToInt(ArrayMap_length(last.pre, AM)) = n - 1
            /\ last.ret.ok
            /\ Len(last.ret.val) = n - 1
            /\ \A j \in 1..Len(last.ret.val) :
                   ArrayMap_exists(last.pre, AM, key_of(last.ret.val[j][1]))
            /\ \A k \in AMKeys :
                   ArrayMap_exists(last.pre, AM, k) =>
                       /\ Cardinality({j \in 1..Len(last.ret.val) :
                                          key_of(last.ret.val[j][1]) = k}) = 1
                       /\ \A j \in 1..Len(last.ret.val) :
                              key_of(last.ret.val[j][1]) = k =>
                                  /\ keyhash(last.ret.val[j][2]) = key_hash(k)
                                  /\ Some(last.ret.val[j][2])
                                         = ArrayMap_get(last.pre, AM, k).val

\* three keys were pushed and the middle one deleted (the first element moved
\* into its slot); range(0, 3, Forward) has returned the two survivors
C22_Witness ==
    /\ last.op = "range"
    /\ last.args = <<0, 3, "Forward">>
    /\ \E d \in FilledStores, k \in AMKeys :
           /\ U32ToInt(ArrayMap_length(d, AM)) = 3
           /\ Map_get(d, AM.map, key_hash(k)) = Some(<<0, 0, 0, 1>> \o k)
           /\ last.pre = ArrayMap_delete(d, AM, k).db
    /\ last.ret.ok
    /\ Len(last.ret.val) = 2
    /\ index_of(last.ret.val[1][1]) = <<0, 1>>
    /\ value_of(last.ret.val[1][2]) # value_of(last.ret.val[2][2])

(***************************************************************************)
(* C24. After any sequence of ArrayMap operations, all() returns exactly   *)
(* one pair per present user key, each key paired with its own current     *)
(* value (the value get(K) returns), and returns no error.                 *)
(***************************************************************************)
C24_AllPairsKeysWithValues ==
    last.op = "all" =>
        /\ last.ret.ok
        /\ \A j \in 1..Len(last.ret.val) :
               ArrayMap_exists(last.pre, AM, key_of(last.ret.val[j][1]))
        /\ \A k \in AMKeys :
               ArrayMap_exists(last.pre, AM, k) =>
                   /\ Cardinality({j \in 1..Len(last.ret.val) :
                                      key_of(last.ret.val[j][1]) = k}) = 1
                   /\ \A j \in 1..Len(last.ret.val) :
                          key_of(last.ret.val[j][1]) = k =>
                              /\ keyhash(last.ret.val[j][2]) = key_hash(k)
                              /\ ArrayMap_get(last.pre, AM, k)
                                     = Ok(Some(last.ret.val[j][2]))

\* the stores that push and push_left calls of one pair each, on distinct
\* keys, build from store d, each with the keys in the order of insertion
RECURSIVE InsertedFrom(_, _, _)
InsertedFrom(d, order, keys) ==
    {<<d, order>>}
        \cup UNION {InsertedFrom(ArrayMap_push(d, ArrayMap_new("abc"), <<<<k, v>>>>).db,
                                 order \o <<k>>, keys \ {k})
                       \cup InsertedFrom(ArrayMap_push_left(d, ArrayMap_new("abc"),
                                                            <<<<k, v>>>>).db,
                                         order \o <<k>>, keys \ {k}) :
                    k \in keys, v \in AMValues}
InsertedStores == InsertedFrom(EmptyDB, <<>>, AMKeys)

(***************************************************************************)
(* C25. ArrayMap.all() and keys() enumerate the user keys in Map insertion *)
(* order: if K1 was first inserted before K2 and both are still present,   *)
(* K1 appears before K2, for any keys and any push direction.              *)
(***************************************************************************)
C25_KeysInInsertionOrder ==
    last.op \in {"keys", "all"} =>
        \A x \in InsertedStores :
            x[1] = last.pre =>
                /\ last.ret.ok
                /\ x[2] = [j \in 1..Len(last.ret.val) |->
                              IF last.op = "keys" THEN key_of(last.ret.val[j])
                              ELSE key_of(last.ret.val[j][1])]

(***************************************************************************)
(* remove: a List, a Map and an ArrayMap of one name share the store, are  *)
(* filled and removed.  The name is an ordinary one or one whose digest is *)
(* the largest u64.                                                        *)
(***************************************************************************)
\* elements a collection is filled with before it is removed
MaxFill == 2

Names == {"abc", NameMaxHash}

\* the keys stored under the 9-byte prefix p
KeysUnder(d, p) == {k \in DOMAIN d : Len(k) >= 9 /\ SubSeq(k, 1, 9) = p}

RLPush ==
    \E value \in Values :
        /\ U32ToInt(List_length(db, LP)) < MaxFill
        /\ CanPush(db, LP, 1)
        /\ Do("push", <<<<value>>>>, List_push(db, LP, <<value>>))
RMSet ==
    \E key \in MapKeys :
        /\ U32ToInt(Map_length(db, MP)) < MaxFill
        /\ Do("set", <<key, <<120>>>>, Map_set(db, MP, key, <<120>>))
RAPush ==
    \E key \in AMKeys :
        /\ U32ToInt(ArrayMap_length(db, AM)) < MaxFill
        /\ CanPush(db, AM.list, 1)
        /\ DoAM("push", <<<<(<<key, <<120>>>>)>>>>,
                ArrayMap_push(db, AM, <<(<<key, <<120>>>>)>>))
RemoveList ==
    \E checks \in Builds :
        Do("remove", <<LP, checks>>, LodisData_remove(db, LP, cname, checks))
RemoveMap ==
    \E checks \in Builds :
        Do("remove", <<MP, checks>>, LodisData_remove(db, MP, cname, checks))
RemoveArrayMap ==
    \E checks \in Builds :
        DoAM("remove", <<AM.list, checks>>, ArrayMap_remove(db, AM, cname, checks))

\* a store that holds a List and a Map of one element each under the names
\* whose digests are next to the digest of `name`
AdjacentStore(name) ==
    LET d1 == Exec(EmptyDB, List_push(EmptyDB, List_new(NameAbove(name)), <<(<<97>>)>>)).db
        d2 == Exec(d1, List_push(d1, List_new(NameBelow(name)), <<(<<98>>)>>)).db
        d3 == Exec(d2, Map_set(d2, Map_new(NameAbove(name)), <<97>>, <<120>>)).db
    IN  Exec(d3, Map_set(d3, Map_new(NameBelow(name)), <<98>>, <<120>>)).db

InitRemove ==
    /\ cname \in Names
    /\ db \in {EmptyDB, AdjacentStore(cname)}
    /\ last = NoOp
    /\ Sequential

NextRemove ==
    \/ RLPush
    \/ RMSet
    \/ RAPush
    \/ RemoveList
    \/ RemoveMap
    \/ RemoveArrayMap

SpecRemove == InitRemove /\ [][NextRemove]_vars

\* the prefixes remove(p) is to purge: p itself, and for the child List of
\* an ArrayMap the prefix of the child Map as well
Purged(p) == IF p = AM.list THEN {AM.list, AM.map} ELSE {p}

(***************************************************************************)
(* C10. After remove() on a List, Map or ArrayMap, whatever it holds and   *)
(* whatever the digest of its name (the largest u64 included), remove has  *)
(* succeeded and no key under the collection's prefix (for an ArrayMap:    *)
(* under either child prefix) is left; on a collection that does not       *)
(* exist, remove succeeds and leaves the store unchanged.                  *)
(***************************************************************************)
C10_RemovePurgesPrefix ==
    last.op = "remove" =>
        /\ last.ret.ok
        /\ \A p \in Purged(last.args[1]) : KeysUnder(db, p) = {}
        /\ (\A p \in Purged(last.args[1]) : KeysUnder(last.pre, p) = {})
               => db = last.pre

(***************************************************************************)
(* C31. remove() on a collection with prefix P deletes only keys whose     *)
(* first 9 bytes equal P (for an ArrayMap: its two child prefixes): every   *)
(* key and value of every other collection, including collections whose    *)
(* prefix is adjacent in key order (name hash one higher or lower, or       *)
(* another type flag with the same hash), is unchanged.                     *)
(***************************************************************************)
C31_RemoveTouchesOnlyPrefix ==
    last.op = "remove" =>
        /\ DOMAIN db \subseteq DOMAIN last.pre
        /\ \A k \in DOMAIN last.pre :
               SubSeq(k, 1, 9) \notin Purged(last.args[1]) =>
                   k \in DOMAIN db /\ db[k] = last.pre[k]

\* a Map of two entries has been removed from a store that holds the Lists
\* and Maps with the next digests and the List and ArrayMap of the same
\* name: its keys are gone and the others are all there
C31_Witness ==
    /\ last.op = "remove"
    /\ last.args[1] = MP
    /\ last.ret.ok
    /\ Cardinality(KeysUnder(last.pre, MP)) = 3
    /\ KeysUnder(db, MP) = {}
    /\ \A q \in {LP, AM.list, AM.map, Map_new(NameAbove(cname)), Map_new(NameBelow(cname)),
                  List_new(NameAbove(cname)), List_new(NameBelow(cname))} :
           KeysUnder(db, q) # {} /\ KeysUnder(db, q) = KeysUnder(last.pre, q)

\* the name whose digest remove(p) increments: for the child List of an
\* ArrayMap, the name of the child
NameOf(p) == IF p = AM.list THEN cname \o "@list" ELSE cname

(***************************************************************************)
(* C30. In remove, whenever the forward scan found a start_key carrying    *)
(* prefix P and the reverse scan from next_prefix = flag ‖ (hash(name)+1)  *)
(* yields no key or a key that does not start with P, start_key is the     *)
(* only key stored under P, so deleting start_key alone purges the         *)
(* collection; this holds for every name hash, including the one where     *)
(* hash(name)+1 wraps around.                                              *)
(***************************************************************************)
C30_LoneStartKey ==
    last.op = "remove" =>
        LET P == last.args[1]
            item == IterForward(last.pre, P)
            next_prefix == <<P[1]>> \o u64_to_u8x8(WrapInc64(siphash_str(NameOf(P))))
            item2 == IterReverse(last.pre, next_prefix)
        IN  (/\ item # None
             /\ SubSeq(item[1], 1, 9) = P
             /\ (item2 = None \/ SubSeq(item2[1], 1, 9) # P)) =>
                /\ KeysUnder(last.pre, P) = {item[1]}
                /\ last.ret.ok
                /\ KeysUnder(db, P) = {}

(***************************************************************************)
(* The dispatcher (src/handler.rs, src/state.rs).  Server threads run      *)
(* handle() concurrently.  A handler picks the mutex of its collection,    *)
(* holds it over the engine call, and a write command then records the     *)
(* key in the registry under the registry's own mutex.                     *)
(*                                                                         *)
(* An engine method reads the store and then commits one write batch:      *)
(* these are two steps of the thread, and other threads may run between    *)
(* them.                                                                   *)
(***************************************************************************)
PRIME == 10007
LODIS_KEY_MAP == "@@@LODIS_KEY_MAP@@@"

\* requests a thread issues
MaxReq == 2

Threads == {1, 2}

\* SystemTime::now() in seconds: the readings of the clock during the run
Times == {<<0, 0, 0, 1>>}

\* str::as_bytes for the names the model uses
as_bytes(name) ==
    CASE name = "abc" -> <<97, 98, 99>>
      [] name = "@@@LODIS_KEY_MAP@@@"
            -> <<64, 64, 64, 76, 79, 68, 73, 83, 95, 75, 69, 89, 95, 77, 65, 80, 64, 64, 64>>

\* a u64 modulo a number below 2^15
Mod64(u, m) == ((((((u[1] % m) * U16 + u[2]) % m) * U16 + u[3]) % m) * U16 + u[4]) % m

KM == Map_new(LODIS_KEY_MAP)

\* the commands of the model and the data type each addresses
ListOps == {"RPUSH", "LLEN"}
MapOps == {"HSET"}
ArrayMapOps == {"ADEL", "AGET"}
ReadOps == {"LLEN", "AGET"}
\* the commands that call add_key, and the flag they call it with
AddsKey(cmd) == cmd.op \in {"RPUSH", "HSET"}
flag(cmd) == IF cmd.op \in ListOps THEN FLAG_LIST
             ELSE IF cmd.op \in MapOps THEN FLAG_MAP ELSE FLAG_ARRAYMAP

\* LodisData::prefix of the collection the command builds
prefix(cmd) == IF cmd.op \in ListOps THEN LP
               ELSE IF cmd.op \in MapOps THEN MP ELSE AM.list

\* a lock index that depends on the command: reads go to a mutex of their own
hash_num_by_command(cmd) ==
    IF cmd.op \in ReadOps THEN PRIME + 1
    ELSE Mod64(siphash_bytes(prefix(cmd)), PRIME)

\* let hash_num = siphash(&x.prefix()) % PRIME
hash_num(cmd) == Mod64(siphash_bytes(prefix(cmd)), PRIME)

\* a mutex that excludes nobody
MutexAlwaysFree(l, i) == TRUE

\* mutex.lock() returns once the mutex is free
MutexFree(l, i) == l[i] = 0

\* GlobalState::add_key: key_map.setnx(flag ‖ key, now)
add_key(d, key, data_type_flag, now) ==
    Map_setnx(d, KM, <<data_type_flag>> \o as_bytes(key), u64_to_u8x8(now))

\* the engine calls a handler makes inside its mutex, one after the other;
\* rets: the results of the calls made so far
Call(m, a) == [m |-> m, a |-> a]
End == Call("end", <<>>)

NextCall(cmd, rets) ==
    LET n == Len(rets)
    IN  IF n > 0 /\ ~rets[n].ok THEN End
        ELSE CASE cmd.op = "RPUSH" ->
                    IF n = 0 THEN Call("List::push", <<LP, cmd.params>>) ELSE End
               [] cmd.op = "LLEN" ->
                    IF n = 0 THEN Call("List::length", <<LP>>) ELSE End
               [] cmd.op = "HSET" ->
                    IF n = 0 THEN Call("Map::set", <<MP, cmd.params[1], cmd.params[2]>>)
                    ELSE End
               [] cmd.op = "AGET" ->
                    IF n = 0 THEN Call("Map::get", <<AM.map, key_hash(cmd.params[1])>>)
                    ELSE IF n = 1 /\ rets[1].val # None
                    THEN Call("List::index_with_abs",
                              <<AM.list, index_of(rets[1].val[1])>>)
                    ELSE End
               [] cmd.op = "ADEL" ->
                    IF n = 0 THEN Call("Map::get", <<AM.map, key_hash(cmd.params[1])>>)
                    ELSE IF rets[1].val = None THEN End
                    ELSE IF n = 1
                    THEN Call("Map::delete", <<AM.map, key_hash(cmd.params[1])>>)
                    ELSE IF n = 2
                    THEN Call("List::delete_with_abs_index",
                              <<AM.list, index_of(rets[1].val[1])>>)
                    ELSE IF n = 3
                    THEN Call("List::index_with_abs",
                              <<AM.list, index_of(rets[1].val[1])>>)
                    ELSE IF rets[4].val = None THEN End
                    ELSE IF n = 4
                    THEN Call("Map::get", <<AM.map, keyhash(rets[4].val[1])>>)
                    ELSE IF n = 5 /\ rets[5].val # None
                    THEN Call("Map::set",
                              <<AM.map, keyhash(rets[4].val[1]),
                                u32_to_u8x4(index_of(rets[1].val[1]))
                                    \o key_of(rets[5].val[1])>>)
                    ELSE End

\* what a call reads from store d: the batch it will commit and its result
CallPlan(c, d) ==
    CASE c.m = "List::push" -> List_push(d, c.a[1], c.a[2])
      [] c.m = "List::length" -> Plan(<<>>, Ok(List_length(d, c.a[1])))
      [] c.m = "List::index_with_abs" ->
            Plan(<<>>, Ok(List_index_with_abs(d, c.a[1], c.a[2])))
      [] c.m = "List::delete_with_abs_index" ->
            List_delete_with_abs_index(d, c.a[1], c.a[2])
      [] c.m = "Map::get" -> Plan(<<>>, Ok(Map_get(d, c.a[1], c.a[2])))
      [] c.m = "Map::set" -> Map_set(d, c.a[1], c.a[2], c.a[3])
      [] c.m = "Map::delete" -> Map_delete(d, c.a[1], c.a[2])

\* the result of the engine call of the handler, from the results of its calls
Outcome(cmd, rets) ==
    LET n == Len(rets)
    IN  IF n > 0 /\ ~rets[n].ok THEN rets[n]
        ELSE CASE cmd.op = "AGET" ->
                    IF rets[1].val = None THEN Ok(None)
                    ELSE IF rets[2].val = None THEN NotMatch
                    ELSE rets[2]
               [] cmd.op = "ADEL" ->
                    IF n = 5 /\ rets[5].val = None THEN NotMatch ELSE Ok(<<>>)
               [] cmd.op = "LLEN" -> rets[1]
               [] OTHER -> Ok(<<>>)

\* the mutexes the commands of the model use
LockIds == {Mod64(siphash_bytes(q), PRIME) : q \in {LP, MP, AM.list}} \cup {PRIME, PRIME + 1}

NoPlan == Plan(<<>>, Ok(<<>>))
NoCmd == [op |-> "none", params |-> <<>>]
Idle(hist) == [pc |-> "idle", cmd |-> NoCmd, rets |-> <<>>, plan |-> NoPlan, hist |-> hist]

\* the requests of thread t: each thread pushes a value of its own, sets
\* keys of its own and deletes a key of its own; both read
SetKeys(t) == IF t = 1 THEN {<<97>>, <<98>>} ELSE {<<99>>, <<100>>}
DelKeys(t) == IF t = 1 THEN {<<98>>} ELSE {<<99>>}
Menu(t) ==
    {[op |-> "RPUSH", params |-> <<(<<96 + t>>)>>], [op |-> "LLEN", params |-> <<>>]}
        \cup {[op |-> "HSET", params |-> <<k, <<120>>>>] : k \in SetKeys(t)}
        \cup {[op |-> "ADEL", params |-> <<k>>] : k \in DelKeys(t)}
        \cup {[op |-> "AGET", params |-> <<(<<97>>)>>]}

Set(t, rec) == threads' = [threads EXCEPT ![t] = rec]

\* a request arrives: the handler builds the collection handle
Begin(t) ==
    /\ threads[t].pc = "idle"
    /\ Len(threads[t].hist) < MaxReq
    /\ \E cmd \in Menu(t) :
          Set(t, [threads[t] EXCEPT !.pc = "wait", !.cmd = cmd, !.rets = <<>>])
    /\ UNCHANGED <<db, cname, last, locks>>

\* let lock = mutex.lock();
Acquire(t) ==
    /\ threads[t].pc = "wait"
    /\ MutexFree(locks, hash_num(threads[t].cmd))
    /\ locks' = [locks EXCEPT ![hash_num(threads[t].cmd)] = t]
    /\ Set(t, [threads[t] EXCEPT !.pc = "in"])
    /\ UNCHANGED <<db, cname, last>>

\* the next engine call reads the store; a call that writes nothing is over
ReadStep(t) ==
    /\ threads[t].pc = "in"
    /\ NextCall(threads[t].cmd, threads[t].rets) # End
    /\ LET plan == CallPlan(NextCall(threads[t].cmd, threads[t].rets), db)
       IN  IF plan.batch = <<>>
           THEN Set(t, [threads[t] EXCEPT !.rets = Append(@, plan.ret)])
           ELSE Set(t, [threads[t] EXCEPT !.pc = "commit", !.plan = plan])
    /\ UNCHANGED <<db, cname, last, locks>>

\* self.db.write(batch)
CommitStep(t) ==
    /\ threads[t].pc = "commit"
    /\ db' = Write(db, threads[t].plan.batch)
    /\ Set(t, [threads[t] EXCEPT !.pc = "in", !.plan = NoPlan,
                                 !.rets = Append(@, threads[t].plan.ret)])
    /\ UNCHANGED <<cname, last, locks>>

\* a handler that keeps its guard when the engine call fails
Release_unless_failed(t) ==
    /\ threads[t].pc = "in"
    /\ NextCall(threads[t].cmd, threads[t].rets) = End
    /\ LET ret == Outcome(threads[t].cmd, threads[t].rets)
           hist == Append(threads[t].hist, [cmd |-> threads[t].cmd, ret |-> ret])
       IN  /\ locks' = [locks EXCEPT ![hash_num(threads[t].cmd)] =
                                         IF ret.ok THEN 0 ELSE @]
           /\ IF AddsKey(threads[t].cmd) /\ ret.ok
              THEN Set(t, [threads[t] EXCEPT !.pc = "reg_wait", !.rets = <<>>,
                                             !.hist = hist])
              ELSE Set(t, Idle(hist))
    /\ UNCHANGED <<db, cname, last>>

\* a handler whose guard lives on while add_key runs
Release_after_add_key(t) ==
    /\ threads[t].pc = "in"
    /\ NextCall(threads[t].cmd, threads[t].rets) = End
    /\ LET ret == Outcome(threads[t].cmd, threads[t].rets)
           hist == Append(threads[t].hist, [cmd |-> threads[t].cmd, ret |-> ret])
       IN  IF AddsKey(threads[t].cmd) /\ ret.ok
           THEN /\ Set(t, [threads[t] EXCEPT !.pc = "reg_wait", !.rets = <<>>,
                                             !.hist = hist])
                /\ UNCHANGED locks
           ELSE /\ Set(t, Idle(hist))
                /\ locks' = [locks EXCEPT ![hash_num(threads[t].cmd)] = 0]
    /\ UNCHANGED <<db, cname, last>>

\* the block of the handler ends and the guard is dropped; a write command
\* that succeeded goes on to add_key
Release(t) ==
    /\ threads[t].pc = "in"
    /\ NextCall(threads[t].cmd, threads[t].rets) = End
    /\ locks' = [locks EXCEPT ![hash_num(threads[t].cmd)] = 0]
    /\ LET ret == Outcome(threads[t].cmd, threads[t].rets)
           hist == Append(threads[t].hist, [cmd |-> threads[t].cmd, ret |-> ret])
       IN  IF AddsKey(threads[t].cmd) /\ ret.ok
           THEN Set(t, [threads[t] EXCEPT !.pc = "reg_wait", !.rets = <<>>,
                                          !.hist = hist])
           ELSE Set(t, Idle(hist))
    /\ UNCHANGED <<db, cname, last>>

\* add_key: let lock = mutex.lock(); on locks[PRIME]
RegAcquire(t) ==
    /\ threads[t].pc = "reg_wait"
    /\ MutexFree(locks, PRIME)
    /\ locks' = [locks EXCEPT ![PRIME] = t]
    /\ Set(t, [threads[t] EXCEPT !.pc = "reg_in"])
    /\ UNCHANGED <<db, cname, last>>

\* key_map.setnx reads the registry
RegRead(t) ==
    /\ threads[t].pc = "reg_in"
    /\ \E now \in Times :
          LET plan == add_key(db, cname, flag(threads[t].cmd), now)
          IN  IF plan.batch = <<>>
              THEN Set(t, [threads[t] EXCEPT !.pc = "reg_out"])
              ELSE Set(t, [threads[t] EXCEPT !.pc = "reg_commit", !.plan = plan])
    /\ UNCHANGED <<db, cname, last, locks>>

\* key_map.setnx commits its batch
RegCommit(t) ==
    /\ threads[t].pc = "reg_commit"
    /\ db' = Write(db, threads[t].plan.batch)
    /\ Set(t, [threads[t] EXCEPT !.pc = "reg_out", !.plan = NoPlan])
    /\ UNCHANGED <<cname, last, locks>>

\* add_key returns and the handler answers
RegRelease(t) ==
    /\ threads[t].pc = "reg_out"
    /\ locks' = [locks EXCEPT ![PRIME] = 0]
    /\ Set(t, Idle(threads[t].hist))
    /\ UNCHANGED <<db, cname, last>>

\* the store the threads start from: ARPUSH abc a x b x c x has been served
ServedStore ==
    LET pushed == ArrayMap_push(EmptyDB, ArrayMap_new("abc"),
                                <<(<<(<<97>>), (<<120>>)>>), (<<(<<98>>), (<<120>>)>>),
                                  (<<(<<99>>), (<<120>>)>>)>>).db
    IN  Exec(pushed, add_key(pushed, "abc", FLAG_ARRAYMAP,
                             CHOOSE now \in Times : TRUE)).db

InitServer ==
    /\ db = ServedStore
    /\ cname = "abc"
    /\ last = NoOp
    /\ threads = [t \in Threads |-> Idle(<<>>)]
    /\ locks = [i \in LockIds |-> 0]

NextServer ==
    \E t \in Threads :
        \/ Begin(t)
        \/ Acquire(t)
        \/ ReadStep(t)
        \/ CommitStep(t)
        \/ Release(t)
        \/ RegAcquire(t)
        \/ RegRead(t)
        \/ RegCommit(t)
        \/ RegRelease(t)

SpecServer == InitServer /\ [][NextServer]_vars

\* the thread is between taking and dropping the mutex of its collection:
\* every store access of the engine call happens here
InSection(t) == threads[t].pc \in {"in", "commit"}

\* the commands thread t has completed, in order
Completed(t) == [j \in 1..Len(threads[t].hist) |-> threads[t].hist[j].cmd]

\* the interleavings of two streams
RECURSIVE Merge(_, _)
Merge(s1, s2) ==
    IF s1 = <<>> THEN {s2}
    ELSE IF s2 = <<>> THEN {s1}
    ELSE {<<Head(s1)>> \o m : m \in Merge(Tail(s1), s2)}
             \cup {<<Head(s2)>> \o m : m \in Merge(s1, Tail(s2))}

\* the engine call of one command, run alone on store d
Serve(d, cmd) ==
    CASE cmd.op = "RPUSH" -> Exec(d, List_push(d, LP, cmd.params)).db
      [] cmd.op = "HSET" -> Exec(d, Map_set(d, MP, cmd.params[1], cmd.params[2])).db
      [] cmd.op = "ADEL" -> ArrayMap_delete(d, AM, cmd.params[1]).db
      [] OTHER -> d

RECURSIVE ServeAll(_, _)
ServeAll(d, cmds) ==
    IF cmds = <<>> THEN d ELSE ServeAll(Serve(d, Head(cmds)), Tail(cmds))

\* the part of the store that belongs to the collections named cname
Collections(d) ==
    LET keys == {k \in DOMAIN d : SubSeq(k, 1, 9) \in {LP, MP, AM.list, AM.map}}
    IN  [k \in keys |-> d[k]]

AllCompleted == Completed(1) \o Completed(2)
CountOp(cmds, op) == Cardinality({j \in 1..Len(cmds) : cmds[j].op = op})

(***************************************************************************)
(* C4. Two request streams write the same collections concurrently, each   *)
(* operation under the mutex of its collection: whenever no operation is   *)
(* under way, the collections are in the state some serial order of the    *)
(* completed operations produces, and no update is lost: the list holds    *)
(* one element per push, its head has not moved and its tail has advanced  *)
(* by the number of pushes; the map holds one entry per key set, each      *)
(* readable.                                                               *)
(***************************************************************************)
C4_SerialOutcome ==
    (\A t \in Threads : ~InSection(t)) =>
        /\ \E order \in Merge(Completed(1), Completed(2)) :
              Collections(db) = Collections(ServeAll(ServedStore, order))
        /\ List_length(db, LP) = IntToU32(CountOp(AllCompleted, "RPUSH"))
        /\ List_head(db, LP) = MAX_U32
        /\ List_tail(db, LP) = IntToU32(CountOp(AllCompleted, "RPUSH"))
        /\ Map_length(db, MP)
               = IntToU32(Cardinality({AllCompleted[j].params[1] :
                                          j \in {i \in 1..Len(AllCompleted) :
                                                     AllCompleted[i].op = "HSET"}}))
        /\ \A j \in 1..Len(AllCompleted) :
              AllCompleted[j].op = "HSET" =>
                 Map_get(db, MP, AllCompleted[j].params[1])
                     = Some(AllCompleted[j].params[2])

\* both threads have pushed twice, their pushes alternating in the list
C4_Witness ==
    /\ \A t \in Threads :
          /\ threads[t].pc = "idle"
          /\ Len(threads[t].hist) = 2
          /\ \A j \in 1..2 : threads[t].hist[j].cmd.op = "RPUSH"
    /\ List_length(db, LP) = IntToU32(4)
    /\ List_index_with_abs(db, LP, IntToU32(0)) = Some(<<97>>)
    /\ List_index_with_abs(db, LP, IntToU32(1)) = Some(<<98>>)
    /\ List_index_with_abs(db, LP, IntToU32(2)) = Some(<<97>>)
    /\ List_index_with_abs(db, LP, IntToU32(3)) = Some(<<98>>)

(***************************************************************************)
(* C5. No two dispatcher operations on the same collection (the same       *)
(* 9-byte prefix) are inside their store-access section at once: every     *)
(* command, reads included, holds locks[hash(prefix) mod P] for as long as *)
(* it is in the section.                                                   *)
(***************************************************************************)
C5_OneInSection ==
    \A t \in Threads :
        InSection(t) =>
            /\ locks[Mod64(siphash_bytes(prefix(threads[t].cmd)), PRIME)] = t
            /\ \A u \in Threads \ {t} :
                  InSection(u) => prefix(threads[u].cmd) # prefix(threads[t].cmd)

\* a read of the ArrayMap waits for the mutex while a delete on the same
\* ArrayMap is between two of its writes
C5_Witness ==
    \E t \in Threads, u \in Threads :
        /\ threads[t].cmd.op = "ADEL"
        /\ threads[t].pc = "commit"
        /\ Len(threads[t].rets) = 2
        /\ threads[u].cmd.op = "AGET"
        /\ threads[u].pc = "wait"

(***************************************************************************)
(* C6. A reader that holds the mutex of an ArrayMap never observes an      *)
(* intermediate state of a concurrent ArrayMap.delete: while it is in its  *)
(* section every Map entry points at the List slot of its key, and the     *)
(* slot it reads for its key exists and holds the hash of that key.        *)
(***************************************************************************)
C6_ReaderSeesNoIntermediate ==
    \A t \in Threads :
        /\ (threads[t].cmd.op = "AGET" /\ InSection(t)) =>
              /\ Bijection(db, AM)
              /\ Len(threads[t].rets) = 2 =>
                    /\ threads[t].rets[2].val # None
                    /\ keyhash(threads[t].rets[2].val[1])
                           = key_hash(threads[t].cmd.params[1])
        /\ \A j \in 1..Len(threads[t].hist) :
              threads[t].hist[j].cmd.op = "AGET" => threads[t].hist[j].ret.ok

\* a reader in its section has read the Map entry of a key that a completed
\* delete of the other thread moved to slot 1, while that thread waits for
\* the mutex with its next delete
C6_Witness ==
    \E t \in Threads, u \in Threads :
        /\ threads[t].cmd.op = "AGET"
        /\ InSection(t)
        /\ Len(threads[t].rets) = 1
        /\ threads[t].rets[1].val # None
        /\ index_of(threads[t].rets[1].val[1]) = IntToU32(1)
        /\ Len(threads[u].hist) = 1
        /\ threads[u].hist[1].cmd.op = "ADEL"
        /\ threads[u].cmd.op = "ADEL"
        /\ threads[u].pc = "wait"

(***************************************************************************)
(* C32. ArrayMap.delete(K) commits exactly two store writes, the Map       *)
(* deletion of K and then one atomic batch that holds the List swap-delete *)
(* together with the Map index rewrite of the moved element: no committed  *)
(* store state has the swap applied while the Map entry of the moved       *)
(* element still holds its old index.                                      *)
(***************************************************************************)
\* an element is stored in a slot of the List while the Map entry of its key
\* records another slot
StaleIndex(d, am) ==
    \E i \in ElemIndexes(d, am.list) :
        LET entry == Map_get(d, am.map, keyhash(d[ElemKey(am.list, i)]))
        IN  entry # None /\ index_of(entry[1]) # i

C32_SwapCommitsWithRewrite == ~StaleIndex(db, AM)

(***************************************************************************)
(* C33. A reader that does not take the shard mutex can observe, during a  *)
(* concurrent ArrayMap.delete of a key that is neither first nor last, a   *)
(* state where slot i holds the swapped former-first element while the Map *)
(* still records that element at its old position, so that get of the      *)
(* moved key does not return its value.                                    *)
(***************************************************************************)
\* thread t is inside ADEL after the commit of List::delete_with_abs_index
\* and before the commit of Map::set, and the slot of the deleted key is
\* still occupied (the key was neither first nor last)
AfterSwap(t) ==
    /\ threads[t].cmd.op = "ADEL"
    /\ InSection(t)
    /\ Len(threads[t].rets) \in 3..5
    /\ List_index_with_abs(db, AM.list, index_of(threads[t].rets[1].val[1])) # None

C33_UnlockedReadSeesSwap ==
    \A t \in Threads :
        AfterSwap(t) =>
            LET i == index_of(threads[t].rets[1].val[1])
                element == db[ElemKey(AM.list, i)]
                entry == Map_get(db, AM.map, keyhash(element))
            IN  /\ keyhash(element) # key_hash(threads[t].cmd.params[1])
                /\ entry # None
                /\ index_of(entry[1]) = List_head(db, AM.list)
                /\ index_of(entry[1]) # i
                /\ ArrayMap_get(db, AM, KeyOfElement(element)) = NotMatch

\* the delete of b has moved a from slot 0 to slot 1 and has yet to commit
\* the new Map entry of a
C33_Witness ==
    \E t \in Threads :
        /\ AfterSwap(t)
        /\ threads[t].pc = "commit"
        /\ threads[t].cmd.params[1] = <<98>>
        /\ keyhash(db[ElemKey(AM.list, IntToU32(1))]) = key_hash(<<97>>)
        /\ index_of(Map_get(db, AM.map, key_hash(<<97>>))[1]) = IntToU32(0)
        /\ ArrayMap_get(db, AM, <<97>>) # Ok(Some(key_hash(<<97>>) \o <<120>>))

(***************************************************************************)
(* One List whose mutations run write by write: a method reads the store,  *)
(* builds its WriteBatch and hands it to the store; the process may stop   *)
(* at any point.                                                           *)
(***************************************************************************)
\* a method that hands every put and delete to the store on its own
db_write_each(batch) == [j \in 1..Len(batch) |-> <<batch[j]>>]

\* self.db.write(batch): the store writes a method makes, in order
db_write(batch) == IF batch = <<>> THEN <<>> ELSE <<batch>>

Writer(pc, op, args, writes) ==
    <<[pc |-> pc, op |-> op, args |-> args, writes |-> writes]>>

\* the method has read the store and built its batch
WStart(op, args, plan) ==
    /\ threads[1].pc = "idle"
    /\ threads' = Writer("write", op, args, db_write(plan.batch))
    /\ UNCHANGED <<db, cname, last, locks>>

WPush ==
    \E values \in ValueSeqs :
        /\ CanPush(db, LP, Len(values))
        /\ WStart("push", <<values>>, List_push(db, LP, values))
WPushLeft ==
    \E values \in ValueSeqs :
        /\ CanPushLeft(db, LP, Len(values))
        /\ WStart("push_left", <<values>>, List_push_left(db, LP, values))
WPop == WStart("pop", <<>>, List_pop(db, LP))
WPopLeft == WStart("pop_left", <<>>, List_pop_left(db, LP))
WDeleteAbs ==
    \E abs_index \in AbsIndexes :
        WStart("delete_with_abs_index", <<abs_index>>,
               List_delete_with_abs_index(db, LP, abs_index))

\* one store write commits
WCommit ==
    /\ threads[1].pc = "write"
    /\ threads[1].writes # <<>>
    /\ db' = Write(db, Head(threads[1].writes))
    /\ threads' = [threads EXCEPT ![1].writes = Tail(@)]
    /\ UNCHANGED <<cname, last, locks>>

\* the method returns
WReturn ==
    /\ threads[1].pc = "write"
    /\ threads[1].writes = <<>>
    /\ threads' = Writer("idle", "none", <<>>, <<>>)
    /\ UNCHANGED <<db, cname, last, locks>>

\* execution stops
WStop ==
    /\ threads[1].pc \in {"idle", "write"}
    /\ threads' = [threads EXCEPT ![1].pc = "stopped"]
    /\ UNCHANGED <<db, cname, last, locks>>

InitWrites ==
    /\ db = EmptyDB
    /\ cname = "abc"
    /\ last = NoOp
    /\ threads = Writer("idle", "none", <<>>, <<>>)
    /\ locks = <<>>

NextWrites ==
    \/ WPush
    \/ WPushLeft
    \/ WPop
    \/ WPopLeft
    \/ WDeleteAbs
    \/ WCommit
    \/ WReturn
    \/ WStop

SpecWrites == InitWrites /\ [][NextWrites]_vars

(***************************************************************************)
(* C34. Every List mutation (push, push_left, pop, pop_left and each       *)
(* branch of delete_with_abs_index) commits its element puts and deletes,  *)
(* its head or tail update and its length update in exactly one atomic     *)
(* batch, so the List window invariant holds in every committed store      *)
(* state, also when execution stops between any two store writes.          *)
(***************************************************************************)
C34_OneBatchPerMutation ==
    /\ WindowConsistent(db, LP)
    /\ Len(threads[1].writes) <= 1
    /\ threads[1].writes # <<>> =>
          LET batch == threads[1].writes[1]
              keys == {batch[j].k : j \in 1..Len(batch)}
          IN  /\ LengthKey(LP) \in keys
              /\ HeadKey(LP) \in keys \/ TailKey(LP) \in keys
              /\ threads[1].op \in {"pop", "pop_left", "delete_with_abs_index"}
                     => \E k \in keys : Len(k) = 14
              /\ threads[1].op \in {"push", "push_left"}
                     => Cardinality({k \in keys : Len(k) = 14})
                            = Len(threads[1].args[1])

\* execution has stopped right after the write of a swap-delete: the slot
\* of the deleted element holds the former first element
C34_Witness ==
    /\ threads[1].pc = "stopped"
    /\ threads[1].op = "delete_with_abs_index"
    /\ threads[1].writes = <<>>
    /\ List_length(db, LP) = IntToU32(2)
    /\ List_index_with_abs(db, LP, threads[1].args[1]) # None

(***************************************************************************)
(* The request body (src/handler.rs, parse_params): the parameters of a    *)
(* request, each framed as its length (u32, big endian) and its bytes.     *)
(* Offsets are usize (64 bits); the bodies of the model keep every sum far *)
(* below that.                                                             *)
(***************************************************************************)
MaxBody == 9
BodyBytes == {0, 1, 2}
Bodies == UNION {[1..n -> BodyBytes] : n \in 0..MaxBody}

\* &body[from..to] is in bounds (a slice out of bounds panics)
InBounds(body, from, to) == from <= to /\ to <= Len(body)
Slice(body, from, to) == SubSeq(body, from + 1, to)

\* a parser that does not compare the announced length with what is left
RECURSIVE parse_params_trusting(_, _, _)
parse_params_trusting(body, index, params) ==
    LET n == Len(body)
        end == U32ToInt(u8x4_to_u32(Slice(body, index, index + 4)))
    IN  IF index = n THEN Ok(params)
        ELSE IF index + 4 > n THEN Err("ParseParamError")
        ELSE IF ~InBounds(body, index + 4, index + 4 + end) THEN Err("panic")
        ELSE parse_params_trusting(body, index + 4 + end,
                                   Append(params, Slice(body, index + 4, index + 4 + end)))

\* the loop of parse_params from offset index, with the parameters read so far
RECURSIVE parse_params(_, _, _)
parse_params(body, index, params) ==
    LET n == Len(body)
        end == U32ToInt(u8x4_to_u32(Slice(body, index, index + 4)))
    IN  IF index = n THEN Ok(params)
        ELSE IF index + 4 > n THEN Err("ParseParamError")
        ELSE IF index + 4 + end > n THEN Err("ParseParamError")
        ELSE IF ~InBounds(body, index + 4, index + 4 + end) THEN Err("panic")
        ELSE parse_params(body, index + 4 + end,
                          Append(params, Slice(body, index + 4, index + 4 + end)))

\* a request body arrives and is parsed
Parse ==
    /\ last = NoOp
    /\ threads[1].pc = "request"
    /\ last' = [op |-> "parse_params", args |-> <<threads[1].body>>,
                ret |-> parse_params(threads[1].body, 0, <<>>), pre |-> db]
    /\ threads' = <<[pc |-> "parsed", body |-> threads[1].body]>>
    /\ UNCHANGED <<db, cname, locks>>

InitParse ==
    /\ db = EmptyDB
    /\ cname = "abc"
    /\ last = NoOp
    /\ \E body \in Bodies : threads = <<[pc |-> "request", body |-> body]>>
    /\ locks = <<>>

NextParse == Parse

SpecParse == InitParse /\ [][NextParse]_vars

\* the body a client builds from its parameters
RECURSIVE Frame(_)
Frame(ps) ==
    IF ps = <<>> THEN <<>>
    ELSE u32_to_u8x4(IntToU32(Len(Head(ps)))) \o Head(ps) \o Frame(Tail(ps))

\* the parameter lists whose bodies are in Bodies: up to three parameters
ParamsUpTo(n) == UNION {[1..k -> BodyBytes] : k \in 0..n}
ParamSeqs ==
    {<<>>} \cup {<<x>> : x \in ParamsUpTo(MaxBody - 4)}
        \cup {<<x, y>> : x \in ParamsUpTo(MaxBody - 8), y \in ParamsUpTo(MaxBody - 8)}
        \cup {<<x, y, z>> : x \in ParamsUpTo(MaxBody - 12),
                            y \in ParamsUpTo(MaxBody - 12),
                            z \in ParamsUpTo(MaxBody - 12)}
\* each with its body
Framed == {f \in {<<ps, Frame(ps)>> : ps \in ParamSeqs} : Len(f[2]) <= MaxBody}

\* the body ends inside a header or before the payload the header announces
\* is complete
Truncated(rest) ==
    /\ rest # <<>>
    /\ \/ Len(rest) < 4
       \/ Len(rest) < 4 + U32ToInt(u8x4_to_u32(SubSeq(rest, 1, 4)))

(***************************************************************************)
(* C35. parse_params returns exactly ps for every body that is the         *)
(* concatenation of the frames len:u32-BE ‖ bytes of the parameters ps     *)
(* (round trip, including the empty body and zero-length parameters), and  *)
(* returns the parse error exactly when the body ends inside a 4-byte      *)
(* header or before a payload is complete; it never reads past the end of  *)
(* the body.                                                               *)
(***************************************************************************)
C35_ParseRoundTrip ==
    last.op = "parse_params" =>
        LET body == last.args[1]
            framed == {f[1] : f \in {g \in Framed : g[2] = body}}
            cut == {f[1] : f \in {g \in Framed :
                       /\ Len(g[2]) <= Len(body)
                       /\ SubSeq(body, 1, Len(g[2])) = g[2]
                       /\ Truncated(SubSeq(body, Len(g[2]) + 1, Len(body)))}}
        IN  /\ last.ret # Err("panic")
            /\ framed # {} => \E ps \in framed : last.ret = Ok(ps)
            /\ last.ret.ok => last.ret.val \in framed
            /\ cut # {} <=> last.ret = Err("ParseParamError")
            /\ cut # {} <=> framed = {}

\* two parameters, the first of them empty, have come back from their body
C35_Witness ==
    /\ last.op = "parse_params"
    /\ last.args[1] = Frame(<<(<<>>), (<<2>>)>>)
    /\ last.ret = Ok(<<(<<>>), (<<2>>)>>)

(***************************************************************************)
(* The parameter checks of the handlers (src/handler.rs, handle): one      *)
(* request at a time, from the parsed parameters to the answer.            *)
(***************************************************************************)
ParamNoMatch == Err("ParamNoMatch")
Panic == Err("panic")

\* buf.clone_from_slice(&params[i]) into a buffer of `width` bytes panics
\* unless the parameter has that many bytes
Fits(param, width) == Len(param) = width

\* the answer: SUCCESS, then each value with its length in front
Answer(values) == <<0>> \o Frame(values)

\* Command::LRANGE (Forward) and Command::RRANGE (Reverse)
handle_range(d, params, direction) ==
    IF Len(params) # 2 THEN Plan(<<>>, ParamNoMatch)
    ELSE IF ~Fits(params[1], 4) \/ ~Fits(params[2], 4) THEN Plan(<<>>, Panic)
    ELSE Plan(<<>>, Ok(Answer(List_range(d, LP, U32ToInt(u8x4_to_u32(params[1])),
                                         U32ToInt(u8x4_to_u32(params[2])), direction))))

\* Command::LINDEX; the indexes of the model are 0 .. 2^16 - 1
handle_LINDEX(d, params) ==
    IF Len(params) # 1 \/ Len(params[1]) # 8 THEN Plan(<<>>, ParamNoMatch)
    ELSE LET value == List_index_far(d, LP, 0, params[1][7] * 256 + params[1][8])
         IN  Plan(<<>>, Ok(IF value = None THEN <<0>> ELSE <<0>> \o value[1]))

\* Command::LDEL
handle_LDEL(d, params) ==
    IF Len(params) # 1 THEN Plan(<<>>, ParamNoMatch)
    ELSE IF ~Fits(params[1], 4) THEN Plan(<<>>, Panic)
    ELSE LET del == List_delete(d, LP, U32ToInt(u8x4_to_u32(params[1])))
         IN  Plan(del.batch, IF del.ret.ok THEN Ok(<<0>>) ELSE del.ret)

\* the pairs of an ArrayMap range as the handler reads them (DBValue derefs
\* to value(): the user key of an IndexKey, the value of a KeyhashValue)
RECURSIVE Flatten(_)
Flatten(pairs) ==
    IF pairs = <<>> THEN <<>>
    ELSE <<key_of(Head(pairs)[1]), value_of(Head(pairs)[2])>> \o Flatten(Tail(pairs))

\* Command::ALRANGE (Forward) and Command::ARRANGE (Reverse)
handle_arange(d, params, direction) ==
    IF Len(params) # 2 \/ Len(params[1]) # 4 \/ Len(params[2]) # 4
    THEN Plan(<<>>, ParamNoMatch)
    ELSE LET values == ArrayMap_range(d, AM, U32ToInt(u8x4_to_u32(params[1])),
                                      U32ToInt(u8x4_to_u32(params[2])), direction)
         IN  Plan(<<>>, IF values.ok THEN Ok(Answer(Flatten(values.val))) ELSE values)

\* Command::HSET, up to the end of its locked block
handle_HSET(d, params) ==
    IF Len(params) # 2 THEN Plan(<<>>, ParamNoMatch)
    ELSE LET set == Map_set(d, MP, params[1], params[2])
         IN  Plan(set.batch, IF set.ret.ok THEN Ok(<<0>>) ELSE set.ret)

\* the parameters of the requests: of 0, 3, 4, 5 and 8 bytes
ParamChoices ==
    {<<>>, <<0, 0, 1>>, <<0, 0, 0, 0>>, <<0, 0, 0, 2>>, <<0, 0, 0, 0, 1>>,
     <<0, 0, 0, 0, 0, 0, 0, 1>>}
MaxParams == 3
ParamLists == UNION {[1..n -> ParamChoices] : n \in 0..MaxParams}

\* the request in hand: pre is the store it arrived in
Request(pc, params, pre) == <<[pc |-> pc, params |-> params, pre |-> pre]>>

\* one request is served and recorded
Handle(op, params, plan) ==
    /\ last = NoOp
    /\ threads[1].pc = "idle"
    /\ db' = Write(db, plan.batch)
    /\ last' = [op |-> op, args |-> <<params>>, ret |-> plan.ret, pre |-> db]
    /\ UNCHANGED <<cname, threads, locks>>

HLRange == \E params \in ParamLists :
               Handle("LRANGE", params, handle_range(db, params, "Forward"))
HRRange == \E params \in ParamLists :
               Handle("RRANGE", params, handle_range(db, params, "Reverse"))
HLIndex == \E params \in ParamLists : Handle("LINDEX", params, handle_LINDEX(db, params))
HLDel == \E params \in ParamLists : Handle("LDEL", params, handle_LDEL(db, params))
HALRange == \E params \in ParamLists :
                Handle("ALRANGE", params, handle_arange(db, params, "Forward"))
HARRange == \E params \in ParamLists :
                Handle("ARRANGE", params, handle_arange(db, params, "Reverse"))
\* HSET up to the end of its locked block: a request that is refused is
\* answered; one that is served has written the Map and goes on to add_key
HHSet ==
    \E params \in ParamLists :
        LET plan == handle_HSET(db, params)
        IN  IF ~plan.ret.ok THEN Handle("HSET", params, plan)
            ELSE /\ last = NoOp
                 /\ threads[1].pc = "idle"
                 /\ db' = Write(db, plan.batch)
                 /\ threads' = Request("add_key", params, db)
                 /\ UNCHANGED <<cname, last, locks>>

\* add_key after HSET: key_map.setnx makes its own store write, and the
\* handler answers SUCCESS
HAddKey ==
    /\ last = NoOp
    /\ threads[1].pc = "add_key"
    /\ \E now \in Times :
          db' = Write(db, add_key(db, cname, FLAG_MAP, now).batch)
    /\ last' = [op |-> "HSET", args |-> <<threads[1].params>>, ret |-> Ok(<<0>>),
                pre |-> threads[1].pre]
    /\ threads' = Request("idle", <<>>, EmptyDB)
    /\ UNCHANGED <<cname, locks>>

\* the store fails key_map.setnx: add_key returns the error, the handler
\* drops it and answers SUCCESS
HAddKeyFail ==
    /\ last = NoOp
    /\ threads[1].pc = "add_key"
    /\ last' = [op |-> "HSET", args |-> <<threads[1].params>>, ret |-> Ok(<<0>>),
                pre |-> threads[1].pre]
    /\ threads' = Request("idle", <<>>, EmptyDB)
    /\ UNCHANGED <<db, cname, locks>>

\* ARPUSH abc a x b x c x and RPUSH abc a b have been served, each with its
\* add_key
HandledStore ==
    LET pushed == Exec(ServedStore, List_push(ServedStore, List_new("abc"),
                                              <<(<<97>>), (<<98>>)>>)).db
    IN  Exec(pushed, add_key(pushed, "abc", FLAG_LIST, CHOOSE now \in Times : TRUE)).db

InitHandle ==
    /\ db = HandledStore
    /\ cname = "abc"
    /\ last = NoOp
    /\ threads = Request("idle", <<>>, EmptyDB)
    /\ locks = <<>>

NextHandle ==
    \/ HLRange
    \/ HRRange
    \/ HLIndex
    \/ HLDel
    \/ HALRange
    \/ HARRange
    \/ HHSet
    \/ HAddKey
    \/ HAddKeyFail

SpecHandle == InitHandle /\ [][NextHandle]_vars

\* the parameters do not match the command: their number, or the width of
\* a fixed-width integer among them
Mismatch(op, params) ==
    CASE op \in {"LRANGE", "RRANGE", "ALRANGE", "ARRANGE"} ->
            Len(params) # 2 \/ \E j \in 1..Len(params) : Len(params[j]) # 4
      [] op = "LDEL" -> Len(params) # 1 \/ Len(params[1]) # 4
      [] op = "LINDEX" -> Len(params) # 1 \/ Len(params[1]) # 8
      [] op = "HSET" -> Len(params) # 2
      [] OTHER -> FALSE

(***************************************************************************)
(* C36. For every command, a request whose parameters do not match the     *)
(* command (a wrong number of them, or a fixed-width integer parameter     *)
(* such as the range bounds of LRANGE, RRANGE, ALRANGE and ARRANGE or the  *)
(* index of LDEL and LINDEX with the wrong byte width) is answered with    *)
(* the param-mismatch or param-type error before any store write: it       *)
(* never aborts the handler and leaves the store unchanged.                *)
(***************************************************************************)
C36_MismatchAnswered ==
    (last.op # "init" /\ Mismatch(last.op, last.args[1])) =>
        /\ last.ret \in {ParamNoMatch, Err("ParamTypeError")}
        /\ db = last.pre

(***************************************************************************)
(* C37. No dispatcher request ever holds two mutexes of the lock table at  *)
(* once: a write command releases its shard mutex before add_key acquires  *)
(* locks[P], so the lock table cannot deadlock.                            *)
(***************************************************************************)
\* the mutexes thread t holds
Held(t) == {i \in LockIds : locks[i] = t}

\* the mutex thread t is blocked on, if it is blocked
Waits(t) == threads[t].pc \in {"wait", "reg_wait"}
Wanted(t) == IF threads[t].pc = "wait" THEN hash_num(threads[t].cmd) ELSE PRIME

C37_OneMutexAtATime ==
    \A t \in Threads :
        /\ Cardinality(Held(t)) <= 1
        /\ threads[t].pc \in {"reg_wait", "reg_in", "reg_commit", "reg_out"}
               => locks[hash_num(threads[t].cmd)] # t
        /\ threads[t].pc \in {"reg_in", "reg_commit", "reg_out"} => Held(t) = {PRIME}
        /\ Waits(t) =>
              /\ Held(t) = {}
              /\ locks[Wanted(t)] # 0 => ~Waits(locks[Wanted(t)])

\* one thread is inside add_key after its push while the other is inside
\* its own push, under the shard mutex the first has released
C37_Witness ==
    \E t \in Threads, u \in Threads :
        /\ threads[t].cmd.op = "RPUSH"
        /\ threads[t].pc = "reg_commit"
        /\ Held(t) = {PRIME}
        /\ threads[u].cmd.op = "RPUSH"
        /\ threads[u].pc = "commit"
        /\ Held(u) = {hash_num(threads[u].cmd)}

(***************************************************************************)
(* The dispatcher under fair scheduling, with store accesses that may      *)
(* fail: every engine call returns a Result, and the handler returns an    *)
(* error of the store at once (`?`).                                       *)
(***************************************************************************)
StoreError == Err("rocksdb")

\* the store fails the next engine call of the handler, at a read or at its
\* write: nothing is written and the call returns the error
FailStep(t) ==
    /\ \/ threads[t].pc = "in" /\ NextCall(threads[t].cmd, threads[t].rets) # End
       \/ threads[t].pc = "commit"
    /\ Set(t, [threads[t] EXCEPT !.pc = "in", !.plan = NoPlan,
                                 !.rets = Append(@, StoreError)])
    /\ UNCHANGED <<db, cname, last, locks>>

\* the store fails key_map.setnx, at its read or at its write: add_key
\* returns the error, which the handler drops
RegFail(t) ==
    /\ threads[t].pc \in {"reg_in", "reg_commit"}
    /\ Set(t, [threads[t] EXCEPT !.pc = "reg_out", !.plan = NoPlan])
    /\ UNCHANGED <<db, cname, last, locks>>

\* the steps a thread takes on its own once its request has arrived
Runs(t) ==
    \/ ReadStep(t)
    \/ FailStep(t)
    \/ CommitStep(t)
    \/ Release(t)
    \/ RegRead(t)
    \/ RegFail(t)
    \/ RegCommit(t)
    \/ RegRelease(t)

NextFair ==
    \E t \in Threads :
        \/ Begin(t)
        \/ Acquire(t)
        \/ RegAcquire(t)
        \/ Runs(t)

\* each thread has served LLEN abc before
InitFair ==
    /\ db = ServedStore
    /\ cname = "abc"
    /\ last = NoOp
    /\ threads = [t \in Threads |->
                     Idle(<<[cmd |-> [op |-> "LLEN", params |-> <<>>],
                             ret |-> Ok(ZERO_U32)]>>)]
    /\ locks = [i \in LockIds |-> 0]

\* a thread that can run does run, and a thread that finds its mutex free
\* again and again gets it
SpecFair ==
    /\ InitFair
    /\ [][NextFair]_vars
    /\ \A t \in Threads :
          /\ WF_vars(Runs(t))
          /\ SF_vars(Acquire(t))
          /\ SF_vars(RegAcquire(t))

(***************************************************************************)
(* C38. Every request that acquires a shard mutex releases it when its     *)
(* operation ends, on success and on every error return; hence, under      *)
(* fair scheduling, every request that waits for a mutex eventually        *)
(* acquires it and every request eventually completes.                     *)
(***************************************************************************)
C38_EveryRequestCompletes ==
    \A t \in Threads :
        /\ [](threads[t].pc = "idle" => Held(t) = {})
        /\ [](threads[t].pc \in {"reg_wait", "reg_in", "reg_commit", "reg_out"}
                 => locks[hash_num(threads[t].cmd)] # t)
        /\ (threads[t].pc = "wait") ~> (threads[t].pc = "in")
        /\ (threads[t].pc = "reg_wait") ~> (threads[t].pc = "reg_in")
        /\ (threads[t].pc # "idle") ~> (threads[t].pc = "idle")

\* a request has ended with an error of the store, and the other thread is
\* inside its push under the mutex that the failed push held
C38_Witness ==
    \E t \in Threads, u \in Threads :
        /\ threads[t].pc = "idle"
        /\ Len(threads[t].hist) = 2
        /\ threads[t].hist[2].cmd.op = "RPUSH"
        /\ threads[t].hist[2].ret = StoreError
        /\ threads[u].cmd.op = "RPUSH"
        /\ threads[u].pc = "in"
        /\ Held(u) = {hash_num(threads[u].cmd)}

(***************************************************************************)
(* The dispatcher serving requests whose key is the name of the key        *)
(* registry itself: the Map commands of the clients then address the Map   *)
(* that add_key writes.                                                    *)
(***************************************************************************)
InitRegistry ==
    /\ db = ServedStore
    /\ cname = LODIS_KEY_MAP
    /\ last = NoOp
    /\ threads = [t \in Threads |-> Idle(<<>>)]
    /\ locks = [i \in LockIds |-> 0]

SpecRegistry == InitRegistry /\ [][NextServer]_vars

\* thread t is inside add_key, between taking and dropping locks[PRIME]
InAddKey(t) == threads[t].pc \in {"reg_in", "reg_commit"}

\* thread t is inside the section of a Map command on the registry Map
OnRegistry(t) ==
    /\ InSection(t)
    /\ threads[t].cmd.op \in MapOps
    /\ prefix(threads[t].cmd) = KM

(***************************************************************************)
(* C39. All writes to the key-registry Map are mutually exclusive: the     *)
(* setnx of add_key, guarded by locks[P], never runs concurrently with any *)
(* other operation on that Map, including a client Map command (HSET,      *)
(* HDEL, HINCRBY, HRM and the like) addressed to the registry's own name,  *)
(* which is guarded by locks[hash(prefix) mod P]; hence the length of the  *)
(* registry always equals its number of entries.                           *)
(***************************************************************************)
C39_RegistryWritesExclusive ==
    /\ \A t \in Threads, u \in Threads : ~(InAddKey(t) /\ OnRegistry(u))
    /\ (\A t \in Threads : threads[t].pc = "idle") => MapLengthExact(db, KM)

=============================================================================
